---- MODULE Spec2Model ----
(***************************************************************************)
(* getconf: option registry, override pipeline (defaults, environment,     *)
(* command-line flags, remote key/value store) and the watch engine.       *)
(*                                                                         *)
(* Go strings and byte slices are sequences of one-character strings, so   *)
(* that Replace, SplitAfter, ToUpper, ... are computed as the code does.   *)
(***************************************************************************)
EXTENDS Integers, Sequences, FiniteSets, TLC

(***************************************************************************)
(* strings package                                                         *)
(***************************************************************************)
Lower ==
    <<"a","b","c","d","e","f","g","h","i","j","k","l","m",
      "n","o","p","q","r","s","t","u","v","w","x","y","z">>

Upper ==
    <<"A","B","C","D","E","F","G","H","I","J","K","L","M",
      "N","O","P","Q","R","S","T","U","V","W","X","Y","Z">>

Digits ==
    <<"0","1","2","3","4","5","6","7","8","9">>

PosIn(c, seq) ==
    IF \E i \in 1..Len(seq) : seq[i] = c
    THEN CHOOSE i \in 1..Len(seq) : seq[i] = c
    ELSE 0

ToLowerCh(c) ==
    LET i == PosIn(c, Upper) IN IF i = 0 THEN c ELSE Lower[i]

ToUpperCh(c) ==
    LET i == PosIn(c, Lower) IN IF i = 0 THEN c ELSE Upper[i]

RECURSIVE ToLower(_)
ToLower(s) ==
    IF s = <<>> THEN <<>> ELSE <<ToLowerCh(Head(s))>> \o ToLower(Tail(s))

RECURSIVE ToUpper(_)
ToUpper(s) ==
    IF s = <<>> THEN <<>> ELSE <<ToUpperCh(Head(s))>> \o ToUpper(Tail(s))

Drop(s, n) ==
    SubSeq(s, n + 1, Len(s))

HasPrefix(s, p) ==
    Len(p) <= Len(s) /\ SubSeq(s, 1, Len(p)) = p

HasSuffix(s, p) ==
    Len(p) <= Len(s) /\ SubSeq(s, Len(s) - Len(p) + 1, Len(s)) = p

TrimPrefix(s, p) ==
    IF HasPrefix(s, p) THEN Drop(s, Len(p)) ELSE s

\* strings.Index, 1-based; 0 when sub does not occur in s
RECURSIVE IndexFrom(_, _, _)
IndexFrom(s, sub, i) ==
    IF i + Len(sub) - 1 > Len(s) THEN 0
    ELSE IF SubSeq(s, i, i + Len(sub) - 1) = sub THEN i
    ELSE IndexFrom(s, sub, i + 1)

Index(s, sub) ==
    IndexFrom(s, sub, 1)

\* strings.Replace(s, old, new, -1) for a non-empty old
RECURSIVE Replace(_, _, _)
Replace(s, old, new) ==
    IF s = <<>> THEN <<>>
    ELSE IF HasPrefix(s, old) THEN new \o Replace(Drop(s, Len(old)), old, new)
    ELSE <<Head(s)>> \o Replace(Tail(s), old, new)

\* the last element of strings.SplitAfter(s, sep) for a non-empty sep
RECURSIVE LastSplitAfter(_, _)
LastSplitAfter(s, sep) ==
    LET i == Index(s, sep)
    IN  IF i = 0 THEN s ELSE LastSplitAfter(Drop(s, i + Len(sep) - 1), sep)

\* strings.Split(s, sep) for a one-character sep
RECURSIVE Split(_, _)
Split(s, sep) ==
    LET i == Index(s, sep)
    IN  IF i = 0 THEN <<s>>
        ELSE <<SubSeq(s, 1, i - 1)>> \o Split(Drop(s, i), sep)

RECURSIVE TrimLeft(_)
TrimLeft(s) ==
    IF s # <<>> /\ Head(s) = " " THEN TrimLeft(Tail(s)) ELSE s

RECURSIVE TrimRight(_)
TrimRight(s) ==
    IF s # <<>> /\ s[Len(s)] = " " THEN TrimRight(SubSeq(s, 1, Len(s) - 1)) ELSE s

TrimSpace(s) ==
    TrimRight(TrimLeft(s))

(***************************************************************************)
(* strconv and fmt                                                         *)
(***************************************************************************)
IsDigits(s) ==
    s # <<>> /\ \A i \in 1..Len(s) : PosIn(s[i], Digits) # 0

RECURSIVE Atoi(_)
Atoi(s) ==
    IF s = <<>> THEN 0
    ELSE 10 * Atoi(SubSeq(s, 1, Len(s) - 1)) + (PosIn(s[Len(s)], Digits) - 1)

RECURSIVE Itoa(_)
Itoa(n) ==
    IF n < 0 THEN <<"-">> \o Itoa(0 - n)
    ELSE IF n < 10 THEN <<Digits[n + 1]>>
    ELSE Itoa(n \div 10) \o <<Digits[(n % 10) + 1]>>

\* whether n fits a signed integer of the given width; the texts of the
\* model have fewer than ten digits, which always fit 32 and 64 bits
InRange(n, bits) ==
    bits >= 32 \/ (n >= 0 - 2^(bits - 1) /\ n <= 2^(bits - 1) - 1)

\* strconv.ParseInt(s, 10, bits): [ok, n]
ParseInt(s, bits) ==
    LET neg  == s # <<>> /\ Head(s) = "-"
        body == IF s # <<>> /\ Head(s) \in {"+", "-"} THEN Tail(s) ELSE s
        mag  == Atoi(body)
        n    == IF neg THEN 0 - mag ELSE mag
    IN  IF IsDigits(body) /\ InRange(n, bits)
        THEN [ok |-> TRUE, n |-> n]
        ELSE [ok |-> FALSE, n |-> 0]

\* strconv.ParseBool(s): [ok, b]
ParseBool(s) ==
    IF s \in {<<"1">>, <<"t">>, <<"T">>, <<"t","r","u","e">>,
              <<"T","R","U","E">>, <<"T","r","u","e">>}
    THEN [ok |-> TRUE, b |-> TRUE]
    ELSE IF s \in {<<"0">>, <<"f">>, <<"F">>, <<"f","a","l","s","e">>,
                   <<"F","A","L","S","E">>, <<"F","a","l","s","e">>}
    THEN [ok |-> TRUE, b |-> FALSE]
    ELSE [ok |-> FALSE, b |-> FALSE]

\* whether n fits an unsigned integer of the given width
InRangeU(n, bits) ==
    bits >= 32 \/ n <= 2^bits - 1

\* strconv.ParseUint(s, 10, bits): [ok, n]; no sign is accepted
ParseUint(s, bits) ==
    IF IsDigits(s) /\ InRangeU(Atoi(s), bits)
    THEN [ok |-> TRUE, n |-> Atoi(s)]
    ELSE [ok |-> FALSE, n |-> 0]

\* a decimal number n * 10^e without trailing zeros in n
RECURSIVE Normalize(_, _)
Normalize(n, e) ==
    IF n = 0 THEN [n |-> 0, e |-> 0]
    ELSE IF n % 10 = 0 THEN Normalize(n \div 10, e + 1)
    ELSE [n |-> n, e |-> e]

\* the largest decimal exponent of the leading digit that float32 and
\* float64 hold
MaxDecimalExp(bits) ==
    IF bits = 32 THEN 38 ELSE 308

\* the result of a failed ParseFloat
floatErr ==
    [ok |-> FALSE, n |-> 0, e |-> 0, special |-> <<>>]

\* the decimal d unless it is too large for the width
floatInRange(neg, bits, d, digits) ==
    IF d.n # 0 /\ digits + d.e - 1 > MaxDecimalExp(bits) THEN floatErr
    ELSE [ok |-> TRUE, n |-> IF neg THEN 0 - d.n ELSE d.n, e |-> d.e,
          special |-> <<>>]

floatNormal(neg, bits, d) ==
    floatInRange(neg, bits, d, Len(Itoa(d.n)))

\* digits before and after the point, and the exponent x
floatDigits(neg, bits, digits, nfrac, x) ==
    IF IsDigits(digits) /\ x.ok
    THEN floatNormal(neg, bits, Normalize(Atoi(digits), x.n - nfrac))
    ELSE floatErr

\* the mantissa with its point at ip (0 when it has none)
floatMantissa(neg, bits, mant, ip, x) ==
    IF ip = 0 THEN floatDigits(neg, bits, mant, 0, x)
    ELSE floatDigits(neg, bits, SubSeq(mant, 1, ip - 1) \o Drop(mant, ip),
                     Len(mant) - ip, x)

\* the text without its sign, with its exponent mark at ie (0 when none)
floatExponent(neg, bits, body, ie) ==
    IF ie = 0
    THEN floatMantissa(neg, bits, body, Index(body, <<".">>), [ok |-> TRUE, n |-> 0])
    ELSE floatMantissa(neg, bits, SubSeq(body, 1, ie - 1),
                       Index(SubSeq(body, 1, ie - 1), <<".">>),
                       ParseInt(Drop(body, ie), 32))

floatSpecial(signed, neg, bits, body, low) ==
    IF low \in {<<"i","n","f">>, <<"i","n","f","i","n","i","t","y">>}
    THEN [ok |-> TRUE, n |-> 0, e |-> 0,
          special |-> IF neg THEN <<"-","I","n","f">> ELSE <<"+","I","n","f">>]
    ELSE IF low = <<"n","a","n">>
    THEN IF signed THEN floatErr
         ELSE [ok |-> TRUE, n |-> 0, e |-> 0, special |-> <<"N","a","N">>]
    ELSE floatExponent(neg, bits, body, Index(low, <<"e">>))

floatSigned(signed, neg, bits, body) ==
    floatSpecial(signed, neg, bits, body, ToLower(body))

\* strconv.ParseFloat(s, bits) for decimal texts and the infinities and
\* NaN: [ok, n, e, special].  A finite result is n * 10^e; with the few
\* digits of the model's texts the nearest float and that decimal name each
\* other.  A number too large for the width is a range error.
ParseFloat(s, bits) ==
    IF s # <<>> /\ Head(s) \in {"+", "-"}
    THEN floatSigned(TRUE, Head(s) = "-", bits, Tail(s))
    ELSE floatSigned(FALSE, FALSE, bits, s)

(***************************************************************************)
(* Go interface{} values: t is the dynamic type, n the number (or 0/1 for  *)
(* a bool), s the string.  A float is n * 10^e, or the infinity or NaN     *)
(* named by s.  A time.Time is the instant at day n after January 1 of     *)
(* year 1 and second e of that day in UTC, with the digits of the          *)
(* fraction of a second in s; its location is not part of the value.       *)
(***************************************************************************)
Nil ==
    [t |-> "nil", n |-> 0, e |-> 0, s |-> <<>>]

IntV(t, n) ==
    [t |-> t, n |-> n, e |-> 0, s |-> <<>>]

BoolV(b) ==
    [t |-> "bool", n |-> IF b THEN 1 ELSE 0, e |-> 0, s |-> <<>>]

StrV(s) ==
    [t |-> "string", n |-> 0, e |-> 0, s |-> s]

FloatV(t, f) ==
    [t |-> t, n |-> f.n, e |-> f.e, s |-> f.special]

TimeV(day, sec, frac) ==
    [t |-> "time.Time", n |-> day, e |-> sec, s |-> frac]

(***************************************************************************)
(* time package: time.Parse on a layout given as its sequence of elements  *)
(* ("2006", "01", "Jan", "_2", "Z07:00", ...); every other element is a    *)
(* literal character.                                                      *)
(***************************************************************************)
shortMonthNames ==
    << <<"J","a","n">>,
       <<"F","e","b">>,
       <<"M","a","r">>,
       <<"A","p","r">>,
       <<"M","a","y">>,
       <<"J","u","n">>,
       <<"J","u","l">>,
       <<"A","u","g">>,
       <<"S","e","p">>,
       <<"O","c","t">>,
       <<"N","o","v">>,
       <<"D","e","c">> >>

shortDayNames ==
    << <<"S","u","n">>,
       <<"M","o","n">>,
       <<"T","u","e">>,
       <<"W","e","d">>,
       <<"T","h","u">>,
       <<"F","r","i">>,
       <<"S","a","t">> >>

longDayNames ==
    << <<"S","u","n","d","a","y">>,
       <<"M","o","n","d","a","y">>,
       <<"T","u","e","s","d","a","y">>,
       <<"W","e","d","n","e","s","d","a","y">>,
       <<"T","h","u","r","s","d","a","y">>,
       <<"F","r","i","d","a","y">>,
       <<"S","a","t","u","r","d","a","y">> >>

StdChunks ==
    {"2006", "06", "01", "Jan", "02", "_2", "15", "3", "04", "05", "PM",
     "Mon", "Monday", "MST", "-0700", "-07:00", "Z0700", "Z07:00",
     ".000", ".000000", ".000000000", ".999999999"}

FracChunks ==
    {".000", ".000000", ".000000000", ".999999999"}

DigitSet ==
    {"0", "1", "2", "3", "4", "5", "6", "7", "8", "9"}

\* isDigit(s, i), 1-based
isDigit(s, i) ==
    i <= Len(s) /\ s[i] \in DigitSet

commaOrPeriod(c) ==
    c \in {".", ","}

numErr(s) ==
    [ok |-> FALSE, n |-> 0, rest |-> s]

\* getnum: a one- or two-digit number; fixed demands two digits
getnum(s, fixed) ==
    IF ~isDigit(s, 1) THEN numErr(s)
    ELSE IF ~isDigit(s, 2)
    THEN IF fixed THEN numErr(s)
         ELSE [ok |-> TRUE, n |-> PosIn(s[1], Digits) - 1, rest |-> Drop(s, 1)]
    ELSE [ok |-> TRUE, n |-> Atoi(SubSeq(s, 1, 2)), rest |-> Drop(s, 2)]

lookupAt(tab, val, i) ==
    [ok |-> TRUE, n |-> i, rest |-> Drop(val, Len(tab[i]))]

lookupFirst(tab, val, hits) ==
    IF hits = {} THEN numErr(val)
    ELSE lookupAt(tab, val, CHOOSE j \in hits : \A k \in hits : j <= k)

\* lookup: the first name that val starts with, letters compared without
\* case
lookup(tab, val) ==
    lookupFirst(tab, val,
                {i \in 1..Len(tab) :
                    /\ Len(val) >= Len(tab[i])
                    /\ ToLower(SubSeq(val, 1, Len(tab[i]))) = ToLower(tab[i])})

\* the number of digits of s from position i on
RECURSIVE digitsFrom(_, _)
digitsFrom(s, i) ==
    IF isDigit(s, i) THEN 1 + digitsFrom(s, i + 1) ELSE 0

\* the number of upper-case letters s starts with, at most six
RECURSIVE nUpper(_, _)
nUpper(s, i) ==
    IF i <= 6 /\ i <= Len(s) /\ PosIn(s[i], Upper) # 0
    THEN 1 + nUpper(s, i + 1) ELSE 0

zoneLength(s, n) ==
    IF n = 3 THEN 3
    ELSE IF n = 4 /\ (s[4] = "T" \/ SubSeq(s, 1, 4) = <<"W","I","T","A">>) THEN 4
    ELSE IF n = 5 /\ s[5] = "T" THEN 5
    ELSE 0

\* parseTimeZone: the length of the zone abbreviation s starts with, 0 when
\* there is none (the forms GMT+3, ChST, MeST and +03 are left out)
parseTimeZone(s) ==
    IF HasPrefix(s, <<"U","T","C">>) THEN 3 ELSE zoneLength(s, nUpper(s, 1))

RECURSIVE TrimZeros(_)
TrimZeros(s) ==
    IF s # <<>> /\ s[Len(s)] = "0" THEN TrimZeros(SubSeq(s, 1, Len(s) - 1)) ELSE s

\* parseNanoseconds(value, nbytes): the digits after the separator
parseNanoseconds(s, nbytes) ==
    IF s # <<>> /\ commaOrPeriod(s[1]) /\ nbytes <= Len(s)
       /\ \A i \in 2..nbytes : isDigit(s, i)
    THEN [ok |-> TRUE, rest |-> Drop(s, nbytes),
          frac |-> TrimZeros(SubSeq(s, 2, IF nbytes > 10 THEN 10 ELSE nbytes))]
    ELSE [ok |-> FALSE, rest |-> s, frac |-> <<>>]

\* the fraction of a second at the head of s for the layout element std:
\* a fixed number of digits for .000, .000000 and .000000000, the digits
\* there are, if any, for .999999999 and after the seconds
fraction(std, s) ==
    IF std \in {".000", ".000000", ".000000000"}
    THEN parseNanoseconds(s, CASE std = ".000" -> 4 [] std = ".000000" -> 7
                                [] OTHER -> 10)
    ELSE IF Len(s) >= 2 /\ commaOrPeriod(s[1]) /\ isDigit(s, 2)
    THEN parseNanoseconds(s, 1 + digitsFrom(s, 2))
    ELSE [ok |-> TRUE, rest |-> s, frac |-> <<>>]

isLeap(year) ==
    year % 4 = 0 /\ (year % 100 # 0 \/ year % 400 = 0)

daysBefore ==
    <<0, 31, 59, 90, 120, 151, 181, 212, 243, 273, 304, 334, 365>>

daysIn(m, year) ==
    IF m = 2 /\ isLeap(year) THEN 29 ELSE daysBefore[m + 1] - daysBefore[m]

\* the number of days from January 1 of year 1 to the given date
daysSinceYearOne(year, m, d) ==
    365 * (year - 1) + ((year - 1) \div 4) - ((year - 1) \div 100)
    + ((year - 1) \div 400)
    + daysBefore[m] + (IF m > 2 /\ isLeap(year) THEN 1 ELSE 0) + d - 1

\* January 1 of 1970 as a day number
unixEpochDay ==
    719162

\* time.Unix(sec, 0)
Unix(sec) ==
    TimeV(unixEpochDay + (sec \div 86400), sec % 86400, <<>>)

\* time.Time{}
ZeroTime ==
    TimeV(0, 0, <<>>)

dateAt(day, local, frac) ==
    TimeV(day + (local \div 86400), local % 86400, frac)

\* time.Date(year, month, day, hour, min, sec, nsec, UTC) moved by the zone
\* offset that was parsed
Date(f) ==
    dateAt(daysSinceYearOne(f.year, f.month, f.day),
           f.hour * 3600 + f.min * 60 + f.sec - f.off, f.frac)

\* the fields time.Parse starts with
parseStart ==
    [year |-> 0, month |-> -1, day |-> -1, hour |-> 0, min |-> 0, sec |-> 0,
     frac |-> <<>>, pm |-> "", off |-> 0]

tzErr(s) ==
    [ok |-> FALSE, off |-> 0, rest |-> s]

numTZOf(s, len, hh, mm) ==
    IF hh.ok /\ mm.ok /\ hh.n <= 24 /\ mm.n <= 60
    THEN [ok |-> TRUE,
          off |-> (IF s[1] = "-" THEN -1 ELSE 1) * (hh.n * 60 + mm.n) * 60,
          rest |-> Drop(s, len)]
    ELSE tzErr(s)

\* a zone of the layout elements Z0700, Z07:00, -0700 and -07:00: Z for the
\* first two, or a sign, two digits of hours, a colon or not, two digits of
\* minutes
numTZ(std, s) ==
    IF std \in {"Z0700", "Z07:00"} /\ s # <<>> /\ Head(s) = "Z"
    THEN [ok |-> TRUE, off |-> 0, rest |-> Tail(s)]
    ELSE IF std \in {"Z07:00", "-07:00"}
    THEN IF Len(s) >= 6 /\ s[4] = ":" /\ s[1] \in {"+", "-"}
         THEN numTZOf(s, 6, getnum(SubSeq(s, 2, 3), TRUE), getnum(SubSeq(s, 5, 6), TRUE))
         ELSE tzErr(s)
    ELSE IF Len(s) >= 5 /\ s[1] \in {"+", "-"}
    THEN numTZOf(s, 5, getnum(SubSeq(s, 2, 3), TRUE), getnum(SubSeq(s, 4, 5), TRUE))
    ELSE tzErr(s)

\* the next element of the layout that is not a literal, "" when none
RECURSIVE nextStdChunk(_)
nextStdChunk(layout) ==
    IF layout = <<>> THEN ""
    ELSE IF Head(layout) \in StdChunks THEN Head(layout)
    ELSE nextStdChunk(Tail(layout))

chunkErr(value, f) ==
    [ok |-> FALSE, rest |-> value, f |-> f]

chunkOk(rest, f) ==
    [ok |-> TRUE, rest |-> rest, f |-> f]

\* one element of the layout against the head of value, given the number,
\* the name, the zone and the fraction read there: [ok, rest, f]
chunkOf(std, value, f, num, name, tz, fr, next) ==
    CASE std = "2006" ->
           IF Len(value) >= 4 /\ IsDigits(SubSeq(value, 1, 4))
           THEN chunkOk(Drop(value, 4), [f EXCEPT !.year = Atoi(SubSeq(value, 1, 4))])
           ELSE chunkErr(value, f)
      [] std = "06" ->
           IF num.ok
           THEN chunkOk(num.rest, [f EXCEPT !.year = IF num.n >= 69 THEN num.n + 1900
                                                  ELSE num.n + 2000])
           ELSE chunkErr(value, f)
      [] std = "01" ->
           IF num.ok /\ num.n >= 1 /\ num.n <= 12
           THEN chunkOk(num.rest, [f EXCEPT !.month = num.n])
           ELSE chunkErr(value, f)
      [] std = "Jan" ->
           IF name.ok THEN chunkOk(name.rest, [f EXCEPT !.month = name.n])
           ELSE chunkErr(value, f)
      [] std \in {"Mon", "Monday"} ->
           IF name.ok THEN chunkOk(name.rest, f) ELSE chunkErr(value, f)
      [] std \in {"02", "_2"} ->
           IF num.ok THEN chunkOk(num.rest, [f EXCEPT !.day = num.n])
           ELSE chunkErr(value, f)
      [] std = "15" ->
           IF num.ok /\ num.n < 24 THEN chunkOk(num.rest, [f EXCEPT !.hour = num.n])
           ELSE chunkErr(value, f)
      [] std = "3" ->
           IF num.ok /\ num.n <= 12 THEN chunkOk(num.rest, [f EXCEPT !.hour = num.n])
           ELSE chunkErr(value, f)
      [] std = "04" ->
           IF num.ok /\ num.n < 60 THEN chunkOk(num.rest, [f EXCEPT !.min = num.n])
           ELSE chunkErr(value, f)
      [] std = "05" ->
           IF num.ok /\ num.n < 60
           THEN IF next \in FracChunks \/ ~fr.ok
                THEN chunkOk(num.rest, [f EXCEPT !.sec = num.n])
                ELSE chunkOk(fr.rest, [f EXCEPT !.sec = num.n, !.frac = fr.frac])
           ELSE chunkErr(value, f)
      [] std = "PM" ->
           IF Len(value) >= 2 /\ SubSeq(value, 1, 2) \in {<<"P","M">>, <<"A","M">>}
           THEN chunkOk(Drop(value, 2), [f EXCEPT !.pm = value[1]])
           ELSE chunkErr(value, f)
      [] std \in {"Z0700", "Z07:00", "-0700", "-07:00"} ->
           IF tz.ok THEN chunkOk(tz.rest, [f EXCEPT !.off = tz.off])
           ELSE chunkErr(value, f)
      [] std = "MST" ->
           IF name.n > 0 THEN chunkOk(Drop(value, name.n), f) ELSE chunkErr(value, f)
      [] std \in FracChunks ->
           IF fr.ok THEN chunkOk(fr.rest, [f EXCEPT !.frac = fr.frac])
           ELSE chunkErr(value, f)
      [] OTHER ->
           IF value # <<>> /\ Head(value) = std THEN chunkOk(Tail(value), f)
           ELSE chunkErr(value, f)

\* the number at the head of value for the layout element std: two digits
\* for 06, 01, 02, 04 and 05, one or two for 15, 3 and _2, which also skips
\* one space
chunkNum(std, value) ==
    getnum(IF std = "_2" /\ value # <<>> /\ Head(value) = " " THEN Tail(value)
           ELSE value,
           std \in {"06", "01", "02", "04", "05"})

\* the name at the head of value: a month, a day or a zone abbreviation
chunkName(std, value) ==
    IF std = "MST" THEN [ok |-> TRUE, n |-> parseTimeZone(value), rest |-> value]
    ELSE lookup(CASE std = "Jan" -> shortMonthNames
                  [] std = "Mon" -> shortDayNames
                  [] OTHER -> longDayNames, value)

chunkWithNum(std, layout, value, f, num) ==
    chunkOf(std, value, f, num,
            IF std \in {"Jan", "Mon", "Monday", "MST"} THEN chunkName(std, value)
            ELSE numErr(value),
            numTZ(std, value),
            fraction(std, IF std = "05" THEN num.rest ELSE value),
            nextStdChunk(layout))

\* one element of the layout against the head of value; layout is what
\* follows the element
parseChunk(std, layout, value, f) ==
    chunkWithNum(std, layout, value, f, chunkNum(std, value))

\* the checks of time.Parse after the layout is used up: no text left, the
\* hour of AM and PM, the missing month and day, the day of the month
parseEnd(value, f, hour, month, day) ==
    IF value = <<>> /\ day >= 1 /\ day <= daysIn(month, f.year)
    THEN [ok |-> TRUE, t |-> Date([f EXCEPT !.hour = hour, !.month = month, !.day = day])]
    ELSE [ok |-> FALSE, t |-> ZeroTime]

\* the loop of time.Parse over the layout
RECURSIVE parseFrom(_, _, _)
RECURSIVE parseRest(_, _)
parseRest(layout, r) ==
    IF r.ok THEN parseFrom(layout, r.rest, r.f)
    ELSE [ok |-> FALSE, t |-> ZeroTime]

parseFrom(layout, value, f) ==
    IF layout = <<>>
    THEN parseEnd(value, f,
                  IF f.pm = "P" /\ f.hour < 12 THEN f.hour + 12
                  ELSE IF f.pm = "A" /\ f.hour = 12 THEN 0 ELSE f.hour,
                  IF f.month = -1 THEN 1 ELSE f.month,
                  IF f.day = -1 THEN 1 ELSE f.day)
    ELSE parseRest(Tail(layout), parseChunk(Head(layout), Tail(layout), value, f))

\* time.Parse(layout, value): [ok, t]
timeParse(layout, value) ==
    parseFrom(layout, value, parseStart)

\* the layouts StringToDate hands to parseDateWith, in its order:
\*    1 RFC3339 = "2006-01-02T15:04:05Z07:00"
\*    2 RFC3339Nano = "2006-01-02T15:04:05.999999999Z07:00"
\*    3 "2006-01-02T15:04:05"
\*    4 RFC1123Z = "Mon, 02 Jan 2006 15:04:05 -0700"
\*    5 RFC1123 = "Mon, 02 Jan 2006 15:04:05 MST"
\*    6 RFC822Z = "02 Jan 06 15:04 -0700"
\*    7 RFC822 = "02 Jan 06 15:04 MST"
\*    8 RFC850 = "Monday, 02-Jan-06 15:04:05 MST"
\*    9 ANSIC = "Mon Jan _2 15:04:05 2006"
\*   10 UnixDate = "Mon Jan _2 15:04:05 MST 2006"
\*   11 RubyDate = "Mon Jan 02 15:04:05 -0700 2006"
\*   12 "2006-01-02 15:04:05.999999999 -0700 MST"
\*   13 "2006-01-02"
\*   14 "02 Jan 2006"
\*   15 "2006-01-02T15:04:05-0700"
\*   16 "2006-01-02 15:04:05 -07:00"
\*   17 "2006-01-02 15:04:05 -0700"
\*   18 "2006-01-02 15:04:05Z07:00"
\*   19 "2006-01-02 15:04:05Z0700"
\*   20 "2006-01-02 15:04:05"
\*   21 Kitchen = "3:04PM"
\*   22 Stamp = "Jan _2 15:04:05"
\*   23 StampMilli = "Jan _2 15:04:05.000"
\*   24 StampMicro = "Jan _2 15:04:05.000000"
\*   25 StampNano = "Jan _2 15:04:05.000000000"
dateLayouts ==
    << <<"2006","-","01","-","02","T","15",":","04",":","05","Z07:00">>,
       <<"2006","-","01","-","02","T","15",":","04",":","05",".999999999","Z07:00">>,
       <<"2006","-","01","-","02","T","15",":","04",":","05">>,
       <<"Mon",","," ","02"," ","Jan"," ","2006"," ","15",":","04",":","05"," ","-0700">>,
       <<"Mon",","," ","02"," ","Jan"," ","2006"," ","15",":","04",":","05"," ","MST">>,
       <<"02"," ","Jan"," ","06"," ","15",":","04"," ","-0700">>,
       <<"02"," ","Jan"," ","06"," ","15",":","04"," ","MST">>,
       <<"Monday",","," ","02","-","Jan","-","06"," ","15",":","04",":","05"," ","MST">>,
       <<"Mon"," ","Jan"," ","_2"," ","15",":","04",":","05"," ","2006">>,
       <<"Mon"," ","Jan"," ","_2"," ","15",":","04",":","05"," ","MST"," ","2006">>,
       <<"Mon"," ","Jan"," ","02"," ","15",":","04",":","05"," ","-0700"," ","2006">>,
       <<"2006","-","01","-","02"," ","15",":","04",":","05",".999999999"," ","-0700"," ","MST">>,
       <<"2006","-","01","-","02">>,
       <<"02"," ","Jan"," ","2006">>,
       <<"2006","-","01","-","02","T","15",":","04",":","05","-0700">>,
       <<"2006","-","01","-","02"," ","15",":","04",":","05"," ","-07:00">>,
       <<"2006","-","01","-","02"," ","15",":","04",":","05"," ","-0700">>,
       <<"2006","-","01","-","02"," ","15",":","04",":","05","Z07:00">>,
       <<"2006","-","01","-","02"," ","15",":","04",":","05","Z0700">>,
       <<"2006","-","01","-","02"," ","15",":","04",":","05">>,
       <<"3",":","04","PM">>,
       <<"Jan"," ","_2"," ","15",":","04",":","05">>,
       <<"Jan"," ","_2"," ","15",":","04",":","05",".000">>,
       <<"Jan"," ","_2"," ","15",":","04",":","05",".000000">>,
       <<"Jan"," ","_2"," ","15",":","04",":","05",".000000000">> >>

\* parseDateWith: the first layout that parses s
RECURSIVE parseDateWith(_, _)
RECURSIVE parseDateNext(_, _, _)
parseDateNext(s, dates, r) ==
    IF r.ok THEN r ELSE parseDateWith(s, dates)

parseDateWith(s, dates) ==
    IF dates = <<>> THEN [ok |-> FALSE, t |-> ZeroTime]
    ELSE parseDateNext(s, Tail(dates), timeParse(Head(dates), s))

\* StringToDate with the three ISO 8601 layouts only
StringToDateISOOnly(s) ==
    parseDateWith(s, SubSeq(dateLayouts, 1, 3))

StringToDate(s) ==
    parseDateWith(s, dateLayouts)

\* the bit size strconv is given for each integer kind
IntBits(kind) ==
    CASE kind = "int"   -> 64
      [] kind = "int8"  -> 8
      [] kind = "int16" -> 16
      [] kind = "int32" -> 32
      [] kind = "int64" -> 64

IntKinds ==
    {"int", "int8", "int16", "int32", "int64"}

\* the bit size strconv is given for each unsigned kind
UintBits(kind) ==
    CASE kind = "uint"   -> 64
      [] kind = "uint8"  -> 8
      [] kind = "uint16" -> 16
      [] kind = "uint32" -> 32
      [] kind = "uint64" -> 64

UintKinds ==
    {"uint", "uint8", "uint16", "uint32", "uint64"}

FloatBits(kind) ==
    IF kind = "float32" THEN 32 ELSE 64

FloatKinds ==
    {"float32", "float64"}

\* `return 0` in a function that returns interface{}: the untyped constant
\* becomes an int, whatever the kind was
typedInt(kind, r) ==
    IF r.ok THEN IntV(kind, r.n) ELSE IntV("int", 0)

typedFloat(kind, r) ==
    IF r.ok THEN FloatV(kind, r) ELSE IntV("int", 0)

\* the date, else the epoch seconds, else the zero time
typedTime(t, sec) ==
    IF t.ok THEN t.t
    ELSE IF sec.ok THEN Unix(sec.n)
    ELSE ZeroTime

getTypedValue(opt, kind) ==
    IF kind \in IntKinds THEN typedInt(kind, ParseInt(opt, IntBits(kind)))
    ELSE IF kind \in UintKinds THEN typedInt(kind, ParseUint(opt, UintBits(kind)))
    ELSE IF kind \in FloatKinds THEN typedFloat(kind, ParseFloat(opt, FloatBits(kind)))
    ELSE IF kind = "bool" THEN BoolV(ParseBool(opt).b)
    ELSE IF kind = "string" THEN StrV(opt)
    ELSE IF kind = "struct" THEN typedTime(StringToDate(opt), ParseInt(opt, 64))
    ELSE Nil

Zeros(k) ==
    [i \in 1..k |-> "0"]

padTo(d, k) ==
    Zeros(k - Len(d)) \o d

\* an integer in at least k digits
Pad(n, k) ==
    padTo(Itoa(n), k)

\* %v of a float cut to its integer part, as %d of the truncated value
FormatFloatInteger(v) ==
    IF v.s # <<>> THEN v.s
    ELSE IF v.e >= 0 THEN Itoa(v.n) \o Zeros(v.e)
    ELSE <<"0">>

\* the digits d of a float with the exponent x of the first of them
formatDigits(v, d, x, sign) ==
    IF x < -4 \/ x >= 6
    THEN sign \o <<Head(d)>>
              \o (IF Len(d) > 1 THEN <<".">> \o Tail(d) ELSE <<>>)
              \o <<"e">> \o (IF x < 0 THEN <<"-">> ELSE <<"+">>)
              \o Pad(IF x < 0 THEN 0 - x ELSE x, 2)
    ELSE IF v.e >= 0 THEN sign \o d \o Zeros(v.e)
    ELSE IF x >= 0
    THEN sign \o SubSeq(d, 1, x + 1) \o <<".">> \o Drop(d, x + 1)
    ELSE sign \o <<"0", ".">> \o Zeros(0 - x - 1) \o d

formatDecimal(v, d) ==
    formatDigits(v, d, Len(d) + v.e - 1, IF v.n < 0 THEN <<"-">> ELSE <<>>)

\* %v of a float (%g with the shortest digits that name it): %e when the
\* exponent of its first digit is below -4 or at least 6
FormatFloat(v) ==
    IF v.s # <<>> THEN v.s
    ELSE IF v.n = 0 THEN <<"0">>
    ELSE formatDecimal(v, Itoa(IF v.n < 0 THEN 0 - v.n ELSE v.n))

\* the year a day number falls in
yearOf(day) ==
    CHOOSE y \in -1..9999 :
        daysSinceYearOne(y, 1, 1) <= day /\ day < daysSinceYearOne(y + 1, 1, 1)

monthOf(day, y) ==
    CHOOSE k \in 1..12 :
        /\ daysSinceYearOne(y, k, 1) <= day
        /\ day < daysSinceYearOne(y, k, 1) + daysIn(k, y)

formatDate(v, y, m, d) ==
    Pad(y, 4) \o <<"-">> \o Pad(m, 2) \o <<"-">> \o Pad(d, 2) \o <<" ">>
    \o Pad(v.e \div 3600, 2) \o <<":">> \o Pad((v.e % 3600) \div 60, 2)
    \o <<":">> \o Pad(v.e % 60, 2)
    \o (IF v.s # <<>> THEN <<".">> \o v.s ELSE <<>>)
    \o <<" ","+","0","0","0","0"," ","U","T","C">>

formatMonth(v, y, m) ==
    formatDate(v, y, m, v.n - daysSinceYearOne(y, m, 1) + 1)

formatYear(v, y) ==
    formatMonth(v, y, monthOf(v.n, y))

\* Time.String of a time in UTC: "2006-01-02 15:04:05.999999999 -0700 MST"
FormatTime(v) ==
    formatYear(v, yearOf(v.n))

\* fmt.Sprintf("%v", value)
Sprintv(v) ==
    CASE v.t = "string"     -> v.s
      [] v.t = "bool"       -> IF v.n = 1 THEN <<"t","r","u","e">> ELSE <<"f","a","l","s","e">>
      [] v.t = "nil"        -> <<"<","n","i","l",">">>
      [] v.t \in FloatKinds -> FormatFloat(v)
      [] v.t = "time.Time"  -> FormatTime(v)
      [] OTHER              -> Itoa(v.n)

(***************************************************************************)
(* Bounds of the model                                                     *)
(***************************************************************************)
\* time.Now() is read at most MaxClock times in one behaviour
MaxClock == 3

\* the Consul server takes writes up to index MaxIndex
MaxIndex == 3

(***************************************************************************)
(* Schema derivation: tags.go and parseStruct                              *)
(*                                                                         *)
(* A struct field is [Name, Kind, HasTag, Tag, Fields]; Kind is the name   *)
(* of its reflect.Kind ("time" for a time.Time struct), Tag the text of    *)
(* its getconf tag and Fields the fields of a nested struct.               *)
(***************************************************************************)
NewOption ==
    [name |-> <<>>, oType |-> "invalid", value |-> Nil, defValue |-> <<>>,
     usage |-> <<>>, lastSetBy |-> "", updatedAt |-> 0]

parseTag(tag) ==
    LET idx == Index(tag, <<",">>)
    IN  IF idx # 0
        THEN [name |-> SubSeq(tag, 1, idx - 1), opts |-> TrimSpace(Drop(tag, idx))]
        ELSE [name |-> tag, opts |-> <<>>]

getKeyValFromTagOption(opt) ==
    LET idx == Index(opt, <<":">>)
    IN  IF idx # 0
        THEN [key |-> TrimSpace(SubSeq(opt, 1, idx - 1)), value |-> TrimSpace(Drop(opt, idx))]
        ELSE [key |-> <<>>, value |-> <<>>]

\* the loop of parseTags leaving at the first clause it cannot read
RECURSIVE applyTagOptionsUntilMalformed(_, _, _)
applyTagOptionsUntilMalformed(o, k, now) ==
    IF k = <<>> THEN o
    ELSE LET sk == Head(k)
             kv == getKeyValFromTagOption(sk)
         IN  IF sk = <<>>
             THEN applyTagOptionsUntilMalformed(o, Tail(k), now)
             ELSE IF kv.key = <<"d","e","f","a","u","l","t">>
             THEN applyTagOptionsUntilMalformed(
                      [o EXCEPT !.defValue = kv.value,
                                !.value = getTypedValue(kv.value, o.oType),
                                !.updatedAt = now,
                                !.lastSetBy = "default"], Tail(k), now)
             ELSE IF kv.key = <<"i","n","f","o">>
             THEN applyTagOptionsUntilMalformed([o EXCEPT !.usage = kv.value], Tail(k), now)
             ELSE o

\* the loop of parseTags over the clauses after the name
RECURSIVE applyTagOptions(_, _, _)
applyTagOptions(o, k, now) ==
    IF k = <<>> THEN o
    ELSE LET sk == Head(k)
             kv == getKeyValFromTagOption(sk)
             o1 == IF sk = <<>> THEN o
                   ELSE IF kv.key = <<"d","e","f","a","u","l","t">>
                   THEN [o EXCEPT !.defValue = kv.value,
                                  !.value = getTypedValue(kv.value, o.oType),
                                  !.updatedAt = now,
                                  !.lastSetBy = "default"]
                   ELSE IF kv.key = <<"i","n","f","o">>
                   THEN [o EXCEPT !.usage = kv.value]
                   ELSE o
         IN  applyTagOptions(o1, Tail(k), now)

\* parseTags(t, o, prefix): [untrack, opt]
parseTags(t, prefix, now) ==
    LET o0  == [NewOption EXCEPT !.name = ToLower(prefix \o t.Name), !.oType = t.Kind]
        tag == TrimSpace(t.Tag)
        nt  == parseTag(tag)
        o1  == IF nt.name # <<>> THEN [o0 EXCEPT !.name = ToLower(prefix \o nt.name)] ELSE o0
    IN  IF t.HasTag /\ tag # <<>>
        THEN IF tag = <<"-">>
             THEN [untrack |-> TRUE, opt |-> o0]
             ELSE [untrack |-> FALSE,
                   opt |-> applyTagOptions(o1, Split(nt.opts, <<",">>), now)]
        ELSE [untrack |-> FALSE, opt |-> o0]

\* g2.options[opt.name] = opt
putOption(opts, o) ==
    [n \in DOMAIN opts \cup {o.name} |-> IF n = o.name THEN o ELSE opts[n]]

\* reflect reports a time.Time field as a struct; getTypedValue switches on
\* that kind
reflectKind(t) ==
    IF t.Kind = "time" THEN [t EXCEPT !.Kind = "struct"] ELSE t

\* parseStruct that still descends into an untracked nested struct
RECURSIVE parseStructUntrackedDescends(_, _, _, _, _)
parseStructUntrackedDescends(opts, fields, prefix, delim, now) ==
    IF fields = <<>> THEN opts
    ELSE LET f  == Head(fields)
             r  == parseTags(reflectKind(f), prefix, now)
             o1 == IF f.Kind = "struct"
                   THEN parseStructUntrackedDescends(opts, f.Fields, r.opt.name \o delim,
                                                     delim, now)
                   ELSE IF r.untrack THEN opts
                   ELSE putOption(opts, r.opt)
         IN  parseStructUntrackedDescends(o1, Tail(fields), prefix, delim, now)

RECURSIVE parseStruct(_, _, _, _, _)
parseStruct(opts, fields, prefix, delim, now) ==
    IF fields = <<>> THEN opts
    ELSE LET f  == Head(fields)
             r  == parseTags(reflectKind(f), prefix, now)
             o1 == IF r.untrack THEN opts
                   ELSE IF f.Kind = "struct"
                   THEN parseStruct(opts, f.Fields, r.opt.name \o delim, delim, now)
                   ELSE putOption(opts, r.opt)
         IN  parseStruct(o1, Tail(fields), prefix, delim, now)

(***************************************************************************)
(* Option registry                                                         *)
(***************************************************************************)
\* setOption without the coercion: the text is stored as it came
setOptionUncoerced(opts, name, value, setBy, now) ==
    IF name \notin DOMAIN opts THEN opts
    ELSE LET o == opts[name]
         IN  [opts EXCEPT ![name] =
                 [o EXCEPT !.value = StrV(value),
                           !.updatedAt = now,
                           !.lastSetBy = setBy]]

\* setOption that turns the option into a string option
setOptionAsString(opts, name, value, setBy, now) ==
    IF name \notin DOMAIN opts THEN opts
    ELSE LET o == opts[name]
         IN  [opts EXCEPT ![name] =
                 [o EXCEPT !.oType = "string",
                           !.value = StrV(value),
                           !.updatedAt = now,
                           !.lastSetBy = setBy]]

\* setOption that assigns the value alone, as Option.Set does
setOptionValueOnly(opts, name, value, setBy, now) ==
    IF name \notin DOMAIN opts THEN opts
    ELSE LET o == opts[name]
         IN  [opts EXCEPT ![name] =
                 [o EXCEPT !.value = getTypedValue(value, o.oType)]]

setOption(opts, name, value, setBy, now) ==
    IF name \notin DOMAIN opts THEN opts
    ELSE LET o == opts[name]
         IN  [opts EXCEPT ![name] =
                 [o EXCEPT !.value = getTypedValue(value, o.oType),
                           !.updatedAt = now,
                           !.lastSetBy = setBy]]

\* Option.String
OptionString(o) ==
    Sprintv(o.value)

\* Option.Set, the flag.Value method the flag parser calls
OptionSet(o, s) ==
    [o EXCEPT !.value = StrV(s)]

\* GetConf.Get: the value of the option, nil for a name that is not registered
Get(opts, key) ==
    IF key \in DOMAIN opts THEN opts[key].value ELSE Nil

\* GetAll without the test for nil
GetAllWithUnset(opts) ==
    [n \in DOMAIN opts |-> opts[n].value]

\* GetConf.GetAll: the options whose value is not nil, each with its value
GetAll(opts) ==
    LET set == {n \in DOMAIN opts : opts[n].value # Nil}
    IN  [n \in set |-> opts[n].value]

(***************************************************************************)
(* Environment stage: environment.go                                       *)
(***************************************************************************)
\* os.Getenv
Getenv(env, key) ==
    IF key \in DOMAIN env THEN env[key] ELSE <<>>

\* the key with "_" appended to every prefix
envKeyUnderscoreAlways(envPrefix, flagName, delim) ==
    ToUpper(envPrefix \o <<"_">> \o
            Replace(Replace(Replace(flagName, <<"-">>, <<"_">>), delim, <<"_","_">>),
                    <<".">>, <<"_">>))

envKey(envPrefix, flagName, delim) ==
    LET p  == IF HasSuffix(envPrefix, <<"_">>) THEN envPrefix ELSE envPrefix \o <<"_">>
        n1 == Replace(flagName, <<"-">>, <<"_">>)
        n2 == Replace(n1, delim, <<"_","_">>)
        n3 == Replace(n2, <<".">>, <<"_">>)
    IN  ToUpper(p \o n3)

\* getEnv without the test of the prefix
getEnvAnyPrefix(env, envPrefix, flagName, delim) ==
    Getenv(env, envKey(envPrefix, flagName, delim))

getEnv(env, envPrefix, flagName, delim) ==
    IF envPrefix = <<>> THEN <<>>
    ELSE Getenv(env, envKey(envPrefix, flagName, delim))

\* loadFromEnv without the test of the value
loadFromEnvEmptyToo(opts, env, envPrefix, delim, now) ==
    [n \in DOMAIN opts |->
        setOption(opts, n, getEnv(env, envPrefix, n, delim), "env", now)[n]]

\* every option is looked up on its own; the order of the map does not matter
loadFromEnv(opts, env, envPrefix, delim, now) ==
    [n \in DOMAIN opts |->
        LET val == getEnv(env, envPrefix, n, delim)
        IN  IF val # <<>> THEN setOption(opts, n, val, "env", now)[n] ELSE opts[n]]

(***************************************************************************)
(* Flag stage: loadFromFlags                                               *)
(*                                                                         *)
(* The command line is a sequence of [name, value] flags.  FlagSet.Parse   *)
(* hands each value to Option.Set and stops at the first flag that is not  *)
(* registered (flag.ContinueOnError); FlagSet.Visit then visits the flags  *)
(* that were set.                                                          *)
(***************************************************************************)
RECURSIVE flagParse(_, _)
flagParse(opts, argv) ==
    IF argv = <<>> \/ Head(argv).name \notin DOMAIN opts
    THEN [opts |-> opts, actual |-> {}]
    ELSE LET a == Head(argv)
             r == flagParse([opts EXCEPT ![a.name] = OptionSet(@, a.value)], Tail(argv))
         IN  [opts |-> r.opts, actual |-> r.actual \cup {a.name}]

setConfigFromFlag(opts, name, now) ==
    setOption(opts, name, OptionString(opts[name]), "flag", now)

\* loadFromFlags with VisitAll in the place of Visit
loadFromFlagsVisitAll(opts, argv, now) ==
    LET r == flagParse(opts, argv)
    IN  [n \in DOMAIN opts |-> setConfigFromFlag(r.opts, n, now)[n]]

loadFromFlags(opts, argv, now) ==
    LET r == flagParse(opts, argv)
    IN  [n \in DOMAIN opts |->
            IF n \in r.actual THEN setConfigFromFlag(r.opts, n, now)[n] ELSE r.opts[n]]

(***************************************************************************)
(* Consul backend: backend/consul/consul.go                                *)
(*                                                                         *)
(* The server's data maps a key to [val, idx], idx being the index of the  *)
(* write that stored it.  A call fails with a transport error when its     *)
(* fail argument is TRUE.                                                  *)
(***************************************************************************)
ConsulGet(data, key, fail) ==
    LET k == TrimPrefix(key, <<"/">>)
    IN  IF fail THEN [err |-> "transport", value |-> <<>>]
        ELSE IF k \notin DOMAIN data THEN [err |-> "key not found", value |-> <<>>]
        ELSE [err |-> "nil", value |-> data[k].val]

ConsulExists(data, key, fail) ==
    LET r == ConsulGet(data, key, fail)
    IN  IF r.err = "nil" THEN [ok |-> TRUE, err |-> "nil"]
        ELSE IF r.err = "key not found" THEN [ok |-> FALSE, err |-> "nil"]
        ELSE [ok |-> FALSE, err |-> r.err]

\* consul.New: more than one endpoint is refused
ConsulNew(urls) ==
    IF urls > 1 THEN "multiple endpoints" ELSE "nil"

(***************************************************************************)
(* kvstore.go: activation                                                  *)
(***************************************************************************)
\* failExists / failGet: whether the Exists / the Get call meets a transport
\* error
\* the key getKV hands to Exists and Get: prefix + key
getKVPrefixKey(path, key) ==
    LET prefix == IF path[Len(path)] # "/" THEN path \o <<"/">> ELSE path
    IN  prefix \o key

getKV(data, path, key, failExists, failGet) ==
    LET e      == ConsulExists(data, getKVPrefixKey(path, key), failExists)
        g      == ConsulGet(data, getKVPrefixKey(path, key), failGet)
    IN  IF e.err = "nil" /\ e.ok
        THEN IF g.err # "nil" THEN <<>> ELSE g.value
        ELSE <<>>

\* loadFromKV that writes every key that exists, also one with an empty value
loadFromKVEmptyToo(opts, data, prefix, set, bucket, delim, fault, now) ==
    [n \in DOMAIN opts |->
        LET name == Replace(n, delim, <<"/">>)
            path == prefix \o <<"/">> \o set \o <<"/">> \o bucket
            e    == ConsulExists(data, getKVPrefixKey(path, name),
                                 fault.name = n /\ fault.call = "exists")
            val  == getKV(data, path, name,
                          fault.name = n /\ fault.call = "exists",
                          fault.name = n /\ fault.call = "get")
        IN  IF e.err = "nil" /\ e.ok THEN setOption(opts, n, val, "kvstore", now)[n]
            ELSE opts[n]]

\* fault = [name, call]: the option and the call ("exists", "get") a
\* transport error hits, if any
loadFromKV(opts, data, prefix, set, bucket, delim, fault, now) ==
    [n \in DOMAIN opts |->
        LET name == Replace(n, delim, <<"/">>)
            val  == getKV(data, prefix \o <<"/">> \o set \o <<"/">> \o bucket, name,
                          fault.name = n /\ fault.call = "exists",
                          fault.name = n /\ fault.call = "get")
        IN  IF val # <<>> THEN setOption(opts, n, val, "kvstore", now)[n] ELSE opts[n]]

getKVKey(nm, prefix, set, bucket, delim) ==
    prefix \o <<"/">> \o set \o <<"/">> \o bucket \o <<"/">> \o Replace(nm, delim, <<"/">>)

getGCKey(k, prefix, set, bucket, delim) ==
    Replace(LastSplitAfter(k, prefix \o <<"/">> \o set \o <<"/">> \o bucket \o <<"/">>),
            <<"/">>, delim)

(***************************************************************************)
(* Inputs                                                                  *)
(***************************************************************************)
\* type tmpConfig struct {
\*     P  int    `getconf:"p, default: 8, info: i"`
\*     AB string `getconf:"a/b"`
\*     D  struct { H string `getconf:"h, default: x"` }
\*     ZZ int    `getconf:"-"`
\*     U  struct { K string `getconf:"k, default: y"` } `getconf:"-"`
\* }
tmpConfig ==
    << [Name |-> <<"P">>, Kind |-> "int", HasTag |-> TRUE,
        Tag |-> <<"p",","," ","d","e","f","a","u","l","t",":"," ","8",
                  ","," ","i","n","f","o",":"," ","i">>,
        Fields |-> <<>>],
       [Name |-> <<"A","B">>, Kind |-> "string", HasTag |-> TRUE,
        Tag |-> <<"a","/","b">>, Fields |-> <<>>],
       [Name |-> <<"D">>, Kind |-> "struct", HasTag |-> FALSE, Tag |-> <<>>,
        Fields |-> << [Name |-> <<"H">>, Kind |-> "string", HasTag |-> TRUE,
                       Tag |-> <<"h",","," ","d","e","f","a","u","l","t",":"," ","x">>,
                       Fields |-> <<>>] >>],
       [Name |-> <<"Z","Z">>, Kind |-> "int", HasTag |-> TRUE, Tag |-> <<"-">>,
        Fields |-> <<>>],
       [Name |-> <<"U">>, Kind |-> "struct", HasTag |-> TRUE, Tag |-> <<"-">>,
        Fields |-> << [Name |-> <<"K">>, Kind |-> "string", HasTag |-> TRUE,
                       Tag |-> <<"k",","," ","d","e","f","a","u","l","t",":"," ","y">>,
                       Fields |-> <<>>] >>] >>

LoaderInputs ==
    { [ConfigStruct |-> tmpConfig, SetName |-> <<>>, EnvPrefix |-> <<>>, KeyDelim |-> <<>>] }

nP  == <<"p">>
nAB == <<"a","/","b">>
nDH == <<"d",":",":","h">>
nZZ == <<"z","z">>

\* names handed to Set and to the watches: the options of tmpConfig and two
\* names that are not registered
Names ==
    {nP, nAB, nDH, nZZ}

Texts ==
    {<<"7">>, <<>>}

\* process environments
Environs ==
    { <<>>,
      (<<"G","C","V","2","_","P">> :> <<"9">>) @@
      (<<"G","C","V","2","_","A","/","B">> :> <<"e">>) @@
      (<<"G","C","V","2","_","D","_","_","H">> :> <<>>) }

\* command lines (os.Args[1:])
CommandLines ==
    { <<>>,
      << [name |-> nP, value |-> <<"7">>] >>,
      << [name |-> nDH, value |-> <<>>], [name |-> nZZ, value |-> <<"7">>],
         [name |-> nP, value |-> <<"7">>] >> }

\* keys of the Consul server
kP   == <<"s","/","g","c","v","2","/","b","/","p">>
kAB  == <<"s","/","g","c","v","2","/","b","/","a","/","b">>
kDH  == <<"s","/","g","c","v","2","/","b","/","d","/","h">>
kP0  == <<"s","/","g","c","v","2","/","p">>
kZZ  == <<"s","/","g","c","v","2","/","b","/","z","z">>

StoreKeys ==
    {kP, kAB, kDH, kP0}

\* *KVOptions handed to EnableKVStore: the backend, the number of URLs, and
\* KVConfig.Prefix and KVConfig.Bucket
KVInputs ==
    [Backend : {<<"C","o","n","s","u","l">>, <<"e","t","c","d">>},
     URLs    : {1, 2},
     Prefix  : {<<"s">>},
     Bucket  : {<<"b">>, <<>>}]

NoFault ==
    [name |-> <<>>, call |-> "none"]

Faults ==
    {NoFault} \cup [name : {nP}, call : {"exists", "get"}]

\* data of the Consul server when the program starts
InitialStores ==
    { <<>>,
      (kP :> [val |-> <<"7">>, idx |-> 1]) @@ (kAB :> [val |-> <<>>, idx |-> 1])
          @@ (kDH :> [val |-> <<"7">>, idx |-> 1])
          @@ (kP0 :> [val |-> <<"5">>, idx |-> 1]) }

(***************************************************************************)
(* State                                                                   *)
(***************************************************************************)
VARIABLES
    options,    \* g2.options: name -> Option
    setName,    \* g2.setName
    envPrefix,  \* g2.envPrefix
    keyDelim,   \* g2.keyDelim
    kvPrefix,   \* g2.kvPrefix
    kvBucket,   \* g2.kvBucket
    kvStore,    \* g2.kvStore: "nil" or "consul"
    environ,    \* the process environment
    args,       \* os.Args[1:]
    kv,         \* the data of the Consul server
    now,        \* the clock time.Now() reads
    ret,        \* the last call of the API and what it returned
    watch,      \* the subscription of WatchWithFunc and its two goroutines
    tree,       \* the subscription of WatchTreeWithFunc and its two goroutines
    mu,         \* Option.mu: the options whose lock is held, and by which goroutine
    tasks,      \* the goroutines that run Set, String and the callback statement by statement
    writes      \* history: what each call of setOption wrote, by the time it read

\* the state of the goroutines inside setOption
sync ==
    <<mu, tasks, writes>>

vars ==
    <<options, setName, envPrefix, keyDelim, kvPrefix, kvBucket, kvStore,
      environ, args, kv, now, ret, watch, tree, mu, tasks, writes>>

Ret(op, err) ==
    [op |-> op, err |-> err]

\* no subscription: no context, no channel, no goroutine
NoWatch ==
    [st |-> "none", name |-> <<>>, key |-> <<>>, k |-> <<>>, done |-> FALSE,
     ppc |-> "idle", wi |-> 0, msg |-> <<>>, perr |-> FALSE,
     cpc |-> "idle", calls |-> <<>>]

NoTree ==
    [st |-> "none", dir |-> <<>>, done |-> FALSE,
     ppc |-> "idle", wi |-> 0, msg |-> <<>>, perr |-> FALSE,
     cpc |-> "idle", calls |-> <<>>]

\* the goroutines of the caller and the receiving goroutine of WatchWithFunc
Goroutines ==
    {"main", "user", "watch"}

\* a goroutine that is in no call
Idle ==
    [pc |-> "idle", op |-> "", name |-> <<>>, value |-> <<>>, setBy |-> "", t |-> 0,
     then |-> "", todo |-> {}, seen |-> <<>>]

NoTasks ==
    [g \in Goroutines |-> Idle]

\* func init(): g2 with its defaults; no options, no backend
Init ==
    /\ options = <<>>
    /\ setName = <<"g","c","v","2">>
    /\ envPrefix = <<"G","C","V","2">>
    /\ keyDelim = <<":",":">>
    /\ kvPrefix = <<>>
    /\ kvBucket = <<>>
    /\ kvStore = "nil"
    /\ environ \in Environs
    /\ args \in CommandLines
    /\ kv \in InitialStores
    /\ now = 1
    /\ ret = Ret("init", "nil")
    /\ watch = NoWatch
    /\ tree = NoTree
    /\ mu = <<>>
    /\ tasks = NoTasks
    /\ writes = <<>>

\* a panic ends the process
Running ==
    ret.err # "panic"

(***************************************************************************)
(* The API                                                                 *)
(***************************************************************************)
\* Load with the two stages swapped: the environment is read after the flags
LoadOptionsEnvLast(lo, delim, prefix, env, argv, t) ==
    loadFromEnv(
        loadFromFlags(parseStruct(<<>>, lo.ConfigStruct, <<>>, delim, t), argv, t),
        env, prefix, delim, t)

LoadOptions(lo, delim, prefix, env, argv, t) ==
    loadFromFlags(
        loadFromEnv(parseStruct(<<>>, lo.ConfigStruct, <<>>, delim, t),
                    env, prefix, delim, t),
        argv, t)

\* Load that parses into the map it finds instead of a new one
LoadMerging(lo) ==
    /\ Running
    /\ now <= MaxClock
    /\ keyDelim' = IF lo.KeyDelim # <<>> THEN lo.KeyDelim ELSE keyDelim
    /\ envPrefix' = IF lo.EnvPrefix # <<>> THEN lo.EnvPrefix ELSE envPrefix
    /\ setName' = IF lo.SetName # <<>> THEN lo.SetName ELSE setName
    /\ options' = loadFromFlags(
                      loadFromEnv(parseStruct(options, lo.ConfigStruct, <<>>, keyDelim', now),
                                  environ, envPrefix', keyDelim', now),
                      args, now)
    /\ now' = now + 1
    /\ ret' = Ret("Load", "nil")
    /\ UNCHANGED <<kvPrefix, kvBucket, kvStore, environ, args, kv, watch, tree, sync>>

Load(lo) ==
    /\ Running
    /\ now <= MaxClock
    /\ keyDelim' = IF lo.KeyDelim # <<>> THEN lo.KeyDelim ELSE keyDelim
    /\ envPrefix' = IF lo.EnvPrefix # <<>> THEN lo.EnvPrefix ELSE envPrefix
    /\ setName' = IF lo.SetName # <<>> THEN lo.SetName ELSE setName
    /\ options' = LoadOptions(lo, keyDelim', envPrefix', environ, args, now)
    /\ now' = now + 1
    /\ ret' = Ret("Load", "nil")
    /\ UNCHANGED <<kvPrefix, kvBucket, kvStore, environ, args, kv, watch, tree, sync>>

\* Set that registers a name it does not know
SetRegistering(key, value) ==
    /\ Running
    /\ now <= MaxClock
    /\ options' = setOption(putOption(options,
                       IF key \in DOMAIN options THEN options[key]
                       ELSE [NewOption EXCEPT !.name = key, !.oType = "string"]),
                   key, value, "user", now)
    /\ now' = now + 1
    /\ ret' = Ret("Set", "nil")
    /\ UNCHANGED <<setName, envPrefix, keyDelim, kvPrefix, kvBucket,
                   kvStore, environ, args, kv, watch, tree, sync>>

Set(key, value) ==
    /\ Running
    /\ IF key \notin DOMAIN options
       THEN /\ ret' = Ret("Set", "key not found")
            /\ UNCHANGED <<options, now>>
       ELSE /\ now <= MaxClock
            /\ options' = setOption(options, key, value, "user", now)
            /\ now' = now + 1
            /\ ret' = Ret("Set", "nil")
    /\ UNCHANGED <<setName, envPrefix, keyDelim, kvPrefix, kvBucket,
                   kvStore, environ, args, kv, watch, tree, sync>>

\* EnableKVStore that goes on to attach and read after consul.New failed
EnableKVStoreIgnoringErr(opts, fault) ==
    /\ Running
    /\ IF ToLower(opts.Backend) = <<"c","o","n","s","u","l">>
       THEN /\ now <= MaxClock
            /\ kvPrefix' = opts.Prefix
            /\ kvBucket' = opts.Bucket
            /\ kvStore' = "consul"
            /\ options' = loadFromKV(options, kv, kvPrefix', setName, kvBucket',
                                     keyDelim, fault, now)
            /\ now' = now + 1
            /\ ret' = Ret("EnableKVStore",
                          IF ConsulNew(opts.URLs) # "nil"
                          THEN "cannot create store consul" ELSE "nil")
       ELSE /\ ret' = Ret("EnableKVStore", "unknown backend")
            /\ UNCHANGED <<options, kvPrefix, kvBucket, kvStore, now>>
    /\ UNCHANGED <<setName, envPrefix, keyDelim, environ, args, kv, watch, tree, sync>>

EnableKVStore(opts, fault) ==
    /\ Running
    /\ IF ToLower(opts.Backend) = <<"c","o","n","s","u","l">>
       THEN /\ kvPrefix' = opts.Prefix
            /\ kvBucket' = opts.Bucket
            /\ IF ConsulNew(opts.URLs) # "nil"
               THEN /\ ret' = Ret("EnableKVStore", "cannot create store consul")
                    /\ UNCHANGED <<options, kvStore, now>>
               ELSE /\ now <= MaxClock
                    /\ kvStore' = "consul"
                    /\ options' = loadFromKV(options, kv, kvPrefix', setName, kvBucket',
                                             keyDelim, fault, now)
                    /\ now' = now + 1
                    /\ ret' = Ret("EnableKVStore", "nil")
       ELSE /\ ret' = Ret("EnableKVStore", "unknown backend")
            /\ UNCHANGED <<options, kvPrefix, kvBucket, kvStore, now>>
    /\ UNCHANGED <<setName, envPrefix, keyDelim, environ, args, kv, watch, tree, sync>>

Next ==
    \/ \E lo \in LoaderInputs : Load(lo)
    \/ \E key \in Names, value \in Texts : Set(key, value)
    \/ \E opts \in KVInputs, fault \in Faults : EnableKVStore(opts, fault)

Spec ==
    Init /\ [][Next]_vars

(***************************************************************************)
(* The Consul server: another client writes a key                          *)
(***************************************************************************)
LastIndex(data) ==
    IF DOMAIN data = {} THEN 0
    ELSE CHOOSE i \in {data[k].idx : k \in DOMAIN data} :
             \A k \in DOMAIN data : data[k].idx <= i

\* the keys the other client writes
PutKeys ==
    {kP, kAB}

StorePut(key, value) ==
    /\ Running
    /\ LastIndex(kv) < MaxIndex
    /\ kv' = [k \in DOMAIN kv \cup {key} |->
                 IF k = key THEN [val |-> value, idx |-> LastIndex(kv) + 1] ELSE kv[k]]
    /\ UNCHANGED <<options, setName, envPrefix, keyDelim, kvPrefix, kvBucket,
                   kvStore, environ, args, now, ret, watch, tree, sync>>

\* the keys of the server in the order List returns them
KeyOrder ==
    <<kAB, kDH, kP, kZZ, kP0>>

\* time.Now() read by a goroutine: the clock moves on until its bound
Tick ==
    IF now <= MaxClock THEN now + 1 ELSE now

(***************************************************************************)
(* WatchWithFunc: ConsulBackend.Watch and the goroutine that receives      *)
(***************************************************************************)
\* the first Get of ConsulBackend.Watch
ConsulWatchOpen(data, key, fail) ==
    IF fail THEN [err |-> "transport", wi |-> 0]
    ELSE IF key \notin DOMAIN data THEN [err |-> "key not found", wi |-> 0]
    ELSE [err |-> "nil", wi |-> data[key].idx]

\* WatchWithFunc that starts its goroutine before it looks at the error of
\* Watch
WatchWithFuncGoFirst(name, fail) ==
    /\ Running
    /\ watch.st = "none"
    /\ IF kvStore = "nil"
       THEN /\ ret' = Ret("WatchWithFunc", "panic")
            /\ UNCHANGED watch
       ELSE LET key == getKVKey(name, kvPrefix, setName, kvBucket, keyDelim)
                r   == ConsulWatchOpen(kv, key, fail)
            IN  /\ ret' = Ret("WatchWithFunc", r.err)
                /\ watch' = [NoWatch EXCEPT
                                !.st = "live", !.name = name, !.key = key,
                                !.k = getGCKey(key, kvPrefix, setName, kvBucket, keyDelim),
                                !.ppc = IF r.err = "nil" THEN "poll" ELSE "closed",
                                !.wi = r.wi, !.cpc = "select"]
    /\ UNCHANGED <<options, setName, envPrefix, keyDelim, kvPrefix, kvBucket,
                   kvStore, environ, args, kv, now, tree, sync>>

WatchWithFunc(name, fail) ==
    /\ Running
    /\ watch.st = "none"
    /\ IF kvStore = "nil"
       THEN /\ ret' = Ret("WatchWithFunc", "panic")
            /\ UNCHANGED watch
       ELSE LET key == getKVKey(name, kvPrefix, setName, kvBucket, keyDelim)
                ex  == ConsulExists(kv, TrimPrefix(key, <<"/">>), fail)
                r   == ConsulWatchOpen(kv, key, fail)
            IN  IF ex.err # "nil" /\ ex.ok
                THEN /\ ret' = Ret("WatchWithFunc", ex.err)
                     /\ UNCHANGED watch
                ELSE IF r.err # "nil"
                THEN /\ ret' = Ret("WatchWithFunc", r.err)
                     /\ UNCHANGED watch
                ELSE /\ ret' = Ret("WatchWithFunc", "nil")
                     /\ watch' = [NoWatch EXCEPT
                                     !.st = "live", !.name = name, !.key = key,
                                     !.k = getGCKey(key, kvPrefix, setName, kvBucket, keyDelim),
                                     !.ppc = "poll", !.wi = r.wi, !.cpc = "select"]
    /\ UNCHANGED <<options, setName, envPrefix, keyDelim, kvPrefix, kvBucket,
                   kvStore, environ, args, kv, now, tree, sync>>

\* the caller cancels the context it gave to WatchWithFunc
CancelWatch ==
    /\ Running
    /\ watch.st = "live" /\ ~watch.done
    /\ watch' = [watch EXCEPT !.done = TRUE]
    /\ UNCHANGED <<options, setName, envPrefix, keyDelim, kvPrefix, kvBucket,
                   kvStore, environ, args, kv, now, ret, tree, sync>>

\* producer, top of the loop: select on ctx.Done() with a default
WatchProducerPoll ==
    /\ Running
    /\ watch.ppc = "poll"
    /\ watch' = [watch EXCEPT !.ppc = IF watch.done THEN "closed" ELSE "get"]
    /\ UNCHANGED <<options, setName, envPrefix, keyDelim, kvPrefix, kvBucket,
                   kvStore, environ, args, kv, now, ret, tree, sync>>

\* producer, the blocking Get: it fails, or returns unchanged at the wait
\* time, or returns the pair of a newer index, which is then to be sent
WatchProducerGet(fail) ==
    /\ Running
    /\ watch.ppc = "get"
    /\ watch' = IF fail
                THEN [watch EXCEPT !.ppc = "closed", !.perr = TRUE]
                ELSE IF kv[watch.key].idx = watch.wi
                THEN [watch EXCEPT !.ppc = "poll"]
                ELSE [watch EXCEPT !.ppc = "send", !.wi = kv[watch.key].idx,
                                   !.msg = kv[watch.key].val]
    /\ UNCHANGED <<options, setName, envPrefix, keyDelim, kvPrefix, kvBucket,
                   kvStore, environ, args, kv, now, ret, tree, sync>>

\* consumer, case val := <-evt with the producer sending: the value is
\* written through setOption and handed to f, unless it is nil
WatchConsumerRecv ==
    /\ Running
    /\ watch.cpc = "select" /\ watch.ppc = "send"
    /\ IF watch.msg # <<>>
       THEN /\ options' = setOption(options, watch.k, watch.msg, "kvstore", now)
            /\ now' = Tick
            /\ watch' = [watch EXCEPT !.ppc = "poll",
                                      !.calls = Append(@, watch.msg)]
       ELSE /\ watch' = [watch EXCEPT !.ppc = "poll"]
            /\ UNCHANGED <<options, now>>
    /\ UNCHANGED <<setName, envPrefix, keyDelim, kvPrefix, kvBucket,
                   kvStore, environ, args, kv, ret, tree, sync>>

\* consumer, case val := <-evt on the closed channel: val is nil
WatchConsumerRecvClosed ==
    /\ Running
    /\ watch.cpc = "select" /\ watch.ppc = "closed"
    /\ watch' = [watch EXCEPT !.cpc = "turn"]
    /\ UNCHANGED <<options, setName, envPrefix, keyDelim, kvPrefix, kvBucket,
                   kvStore, environ, args, kv, now, ret, tree, sync>>

\* consumer, val is nil: nothing is written or called and the loop goes round
WatchConsumerTurn ==
    /\ Running
    /\ watch.cpc = "turn"
    /\ watch' = [watch EXCEPT !.cpc = "select"]
    /\ UNCHANGED <<options, setName, envPrefix, keyDelim, kvPrefix, kvBucket,
                   kvStore, environ, args, kv, now, ret, tree, sync>>

\* consumer, case <-ctx.Done(): return
WatchConsumerDone ==
    /\ Running
    /\ watch.cpc = "select" /\ watch.done
    /\ watch' = [watch EXCEPT !.cpc = "exited"]
    /\ UNCHANGED <<options, setName, envPrefix, keyDelim, kvPrefix, kvBucket,
                   kvStore, environ, args, kv, now, ret, tree, sync>>

(***************************************************************************)
(* WatchTreeWithFunc: ConsulBackend.WatchTree and the receiving goroutine  *)
(***************************************************************************)
\* directory with a "/" appended when it does not end in one
WithSlash(dir) ==
    IF dir[Len(dir)] # "/" THEN dir \o <<"/">> ELSE dir

\* the pairs KV().List returns for a prefix
ConsulList(data, prefix) ==
    LET held == SelectSeq(KeyOrder, LAMBDA k : k \in DOMAIN data /\ HasPrefix(k, prefix))
    IN  [i \in 1..Len(held) |->
            [Key |-> held[i], Value |-> data[held[i]].val, LastIndex |-> data[held[i]].idx]]

\* meta.LastIndex of a List
ListIndex(data, prefix) ==
    LET pairs == ConsulList(data, prefix)
    IN  IF pairs = <<>> THEN LastIndex(data)
        ELSE CHOOSE i \in {pairs[j].LastIndex : j \in 1..Len(pairs)} :
                 \A j \in 1..Len(pairs) : pairs[j].LastIndex <= i

\* WatchTreeWithFunc that lists the directory first, as ConsulBackend.List
\* does, and fails when nothing is under it
WatchTreeWithFuncListFirst(dir) ==
    /\ Running
    /\ tree.st = "none"
    /\ IF kvStore = "nil"
       THEN /\ ret' = Ret("WatchTreeWithFunc", "panic")
            /\ UNCHANGED tree
       ELSE IF ConsulList(kv, TrimPrefix(WithSlash(dir), <<"/">>)) = <<>>
       THEN /\ ret' = Ret("WatchTreeWithFunc", "key not found")
            /\ UNCHANGED tree
       ELSE /\ ret' = Ret("WatchTreeWithFunc", "nil")
            /\ tree' = [NoTree EXCEPT !.st = "live", !.dir = dir,
                                      !.ppc = "poll", !.cpc = "select"]
    /\ UNCHANGED <<options, setName, envPrefix, keyDelim, kvPrefix, kvBucket,
                   kvStore, environ, args, kv, now, watch, sync>>

WatchTreeWithFunc(dir) ==
    /\ Running
    /\ tree.st = "none"
    /\ IF kvStore = "nil"
       THEN /\ ret' = Ret("WatchTreeWithFunc", "panic")
            /\ UNCHANGED tree
       ELSE /\ ret' = Ret("WatchTreeWithFunc", "nil")
            /\ tree' = [NoTree EXCEPT !.st = "live", !.dir = dir,
                                      !.ppc = "poll", !.cpc = "select"]
    /\ UNCHANGED <<options, setName, envPrefix, keyDelim, kvPrefix, kvBucket,
                   kvStore, environ, args, kv, now, watch, sync>>

\* the caller cancels the context it gave to WatchTreeWithFunc
CancelTree ==
    /\ Running
    /\ tree.st = "live" /\ ~tree.done
    /\ tree' = [tree EXCEPT !.done = TRUE]
    /\ UNCHANGED <<options, setName, envPrefix, keyDelim, kvPrefix, kvBucket,
                   kvStore, environ, args, kv, now, ret, watch, sync>>

TreeProducerPoll ==
    /\ Running
    /\ tree.ppc = "poll"
    /\ tree' = [tree EXCEPT !.ppc = IF tree.done THEN "closed" ELSE "list"]
    /\ UNCHANGED <<options, setName, envPrefix, keyDelim, kvPrefix, kvBucket,
                   kvStore, environ, args, kv, now, ret, watch, sync>>

\* producer, the List: it fails, or returns at the same index, or returns
\* the children of the directory, which are then to be sent
TreeProducerList(fail) ==
    /\ Running
    /\ tree.ppc = "list"
    /\ LET directory == TrimPrefix(WithSlash(tree.dir), <<"/">>)
           pairs     == ConsulList(kv, directory)
           index     == ListIndex(kv, directory)
       IN  tree' = IF fail
                   THEN [tree EXCEPT !.ppc = "closed", !.perr = TRUE]
                   ELSE IF tree.wi = index
                   THEN [tree EXCEPT !.ppc = "poll"]
                   ELSE [tree EXCEPT !.ppc = "send", !.wi = index,
                             !.msg = SelectSeq(pairs, LAMBDA pr : pr.Key # directory)]
    /\ UNCHANGED <<options, setName, envPrefix, keyDelim, kvPrefix, kvBucket,
                   kvStore, environ, args, kv, now, ret, watch, sync>>

\* the body of the range loop over one batch
RECURSIVE applyPairs(_, _, _, _)
applyPairs(opts, pairs, dir, t) ==
    IF pairs = <<>> THEN opts
    ELSE LET pair == Head(pairs)
             key  == LastSplitAfter(pair.Key, dir)
         IN  applyPairs(setOption(opts, key, pair.Value, "kvstore", t),
                        Tail(pairs), dir, t)

\* consumer, case pairList := <-evt with the producer sending
TreeConsumerRecv ==
    /\ Running
    /\ tree.cpc = "select" /\ tree.ppc = "send"
    /\ LET dir == WithSlash(TrimPrefix(tree.dir, <<"/">>))
       IN  /\ options' = applyPairs(options, tree.msg, dir, now)
           /\ now' = IF tree.msg # <<>> THEN Tick ELSE now
           /\ tree' = [tree EXCEPT !.ppc = "poll", !.calls = @ \o tree.msg]
    /\ UNCHANGED <<setName, envPrefix, keyDelim, kvPrefix, kvBucket,
                   kvStore, environ, args, kv, ret, watch, sync>>

\* consumer, case pairList := <-evt on the closed channel: the list is nil
TreeConsumerRecvClosed ==
    /\ Running
    /\ tree.cpc = "select" /\ tree.ppc = "closed"
    /\ tree' = [tree EXCEPT !.cpc = "turn"]
    /\ UNCHANGED <<options, setName, envPrefix, keyDelim, kvPrefix, kvBucket,
                   kvStore, environ, args, kv, now, ret, watch, sync>>

\* consumer, the range over the nil list is empty and the loop goes round
TreeConsumerTurn ==
    /\ Running
    /\ tree.cpc = "turn"
    /\ tree' = [tree EXCEPT !.cpc = "select"]
    /\ UNCHANGED <<options, setName, envPrefix, keyDelim, kvPrefix, kvBucket,
                   kvStore, environ, args, kv, now, ret, watch, sync>>

\* the directories handed to WatchTreeWithFunc
Dirs ==
    {kvPrefix \o <<"/">> \o setName \o <<"/">> \o kvBucket}

\* the names handed to WatchWithFunc: Names and d/h, which is not registered
\* and whose key is the key of option d::h
nDslashH == <<"d","/","h">>

WatchNames ==
    Names \cup {nDslashH}

WatchInit ==
    /\ Init
    /\ environ = <<>>
    /\ args = <<>>

\* the caller loads once, attaches once and holds one subscription
WatchNext ==
    \/ \E lo \in LoaderInputs : options = <<>> /\ Load(lo)
    \/ \E opts \in KVInputs, fault \in Faults : kvStore = "nil" /\ EnableKVStore(opts, fault)
    \/ \E key \in PutKeys, value \in Texts : StorePut(key, value)
    \/ \E name \in WatchNames, fail \in BOOLEAN : tree.st = "none" /\ WatchWithFunc(name, fail)
    \/ CancelWatch
    \/ WatchProducerPoll
    \/ \E fail \in BOOLEAN : WatchProducerGet(fail)
    \/ WatchConsumerRecv
    \/ WatchConsumerRecvClosed
    \/ WatchConsumerTurn
    \/ WatchConsumerDone
    \/ \E dir \in Dirs : watch.st = "none" /\ WatchTreeWithFunc(dir)
    \/ CancelTree
    \/ TreeProducerPoll
    \/ \E fail \in BOOLEAN : TreeProducerList(fail)
    \/ TreeConsumerRecv
    \/ TreeConsumerRecvClosed
    \/ TreeConsumerTurn

WatchSpec ==
    WatchInit /\ [][WatchNext]_vars

\* the Go scheduler runs every goroutine that can take a step, and a select
\* with several ready cases picks each of them again and again
FairWatchSpec ==
    /\ WatchSpec
    /\ WF_vars(WatchProducerPoll)
    /\ WF_vars(\E fail \in BOOLEAN : WatchProducerGet(fail))
    /\ WF_vars(WatchConsumerRecv)
    /\ WF_vars(WatchConsumerRecvClosed)
    /\ WF_vars(WatchConsumerTurn)
    /\ SF_vars(WatchConsumerDone)
    /\ WF_vars(TreeProducerPoll)
    /\ WF_vars(\E fail \in BOOLEAN : TreeProducerList(fail))
    /\ WF_vars(TreeConsumerRecv)
    /\ WF_vars(TreeConsumerRecvClosed)
    /\ WF_vars(TreeConsumerTurn)

\* a caller that loads, then attaches, then subscribes, with the goroutines
\* scheduled as in FairWatchSpec
SubscribeNext ==
    \/ \E lo \in LoaderInputs : options = <<>> /\ kvStore = "nil" /\ Load(lo)
    \/ \E opts \in KVInputs : options # <<>> /\ kvStore = "nil" /\ EnableKVStore(opts, NoFault)
    \/ \E key \in PutKeys, value \in Texts : StorePut(key, value)
    \/ \E name \in WatchNames, fail \in BOOLEAN : tree.st = "none" /\ WatchWithFunc(name, fail)
    \/ CancelWatch
    \/ WatchProducerPoll
    \/ \E fail \in BOOLEAN : WatchProducerGet(fail)
    \/ WatchConsumerRecv
    \/ WatchConsumerRecvClosed
    \/ WatchConsumerTurn
    \/ WatchConsumerDone
    \/ \E dir \in Dirs : watch.st = "none" /\ WatchTreeWithFunc(dir)
    \/ CancelTree
    \/ TreeProducerPoll
    \/ \E fail \in BOOLEAN : TreeProducerList(fail)
    \/ TreeConsumerRecv
    \/ TreeConsumerRecvClosed
    \/ TreeConsumerTurn

SubscribeSpec ==
    /\ WatchInit /\ [][SubscribeNext]_vars
    /\ WF_vars(WatchProducerPoll)
    /\ WF_vars(\E fail \in BOOLEAN : WatchProducerGet(fail))
    /\ WF_vars(WatchConsumerRecv)
    /\ WF_vars(WatchConsumerRecvClosed)
    /\ WF_vars(WatchConsumerTurn)
    /\ SF_vars(WatchConsumerDone)
    /\ WF_vars(TreeProducerPoll)
    /\ WF_vars(\E fail \in BOOLEAN : TreeProducerList(fail))
    /\ WF_vars(TreeConsumerRecv)
    /\ WF_vars(TreeConsumerRecvClosed)
    /\ WF_vars(TreeConsumerTurn)

(***************************************************************************)
(* The registry under every writer: Set, activation, both watches          *)
(***************************************************************************)
nU  == <<"u">>
nUK == <<"u",":",":","k">>

\* the names handed to Set: an option and the names the untracked fields of
\* tmpConfig would have
RegistryNames ==
    {nAB, nZZ, nU, nUK}

\* data of the Consul server: a value is held for zz as well
RegistryStores ==
    { <<>>,
      (kP :> [val |-> <<"7">>, idx |-> 1]) @@ (kAB :> [val |-> <<>>, idx |-> 1])
          @@ (kDH :> [val |-> <<"7">>, idx |-> 1])
          @@ (kZZ :> [val |-> <<"7">>, idx |-> 1])
          @@ (kP0 :> [val |-> <<"5">>, idx |-> 1]) }

RegistryInit ==
    /\ options = <<>>
    /\ setName = <<"g","c","v","2">>
    /\ envPrefix = <<"G","C","V","2">>
    /\ keyDelim = <<":",":">>
    /\ kvPrefix = <<>>
    /\ kvBucket = <<>>
    /\ kvStore = "nil"
    /\ environ = <<>>
    /\ args = <<>>
    /\ kv \in RegistryStores
    /\ now = 1
    /\ ret = Ret("init", "nil")
    /\ watch = NoWatch
    /\ tree = NoTree
    /\ mu = <<>>
    /\ tasks = NoTasks
    /\ writes = <<>>

\* the caller of SubscribeNext, who also calls Set once the options are loaded
RegistryNext ==
    \/ SubscribeNext
    \/ \E key \in RegistryNames : options # <<>> /\ Set(key, <<"7">>)

RegistrySpec ==
    RegistryInit /\ [][RegistryNext]_vars

(***************************************************************************)
(* Load, statement by statement: parseStruct, loadFromEnv, loadFromFlags   *)
(*                                                                         *)
(* ret.op is the statement of Load that ran last.  g2 is a package         *)
(* variable that code of the package assigns (the tests do), so envPrefix  *)
(* starts at its default or empty.                                         *)
(***************************************************************************)
\* type stageConfig struct {
\*     XY int    `getconf:"x-y, default: 1"`
\*     ZW string `getconf:"z.w"`
\*     N  struct { K string `getconf:"k"` }
\* }
stageConfig ==
    << [Name |-> <<"X","Y">>, Kind |-> "int", HasTag |-> TRUE,
        Tag |-> <<"x","-","y",","," ","d","e","f","a","u","l","t",":"," ","1">>,
        Fields |-> <<>>],
       [Name |-> <<"Z","W">>, Kind |-> "string", HasTag |-> TRUE,
        Tag |-> <<"z",".","w">>, Fields |-> <<>>],
       [Name |-> <<"N">>, Kind |-> "struct", HasTag |-> FALSE, Tag |-> <<>>,
        Fields |-> << [Name |-> <<"K">>, Kind |-> "string", HasTag |-> TRUE,
                       Tag |-> <<"k">>, Fields |-> <<>>] >>] >>

nXY == <<"x","-","y">>
nZW == <<"z",".","w">>

StageInputs ==
    [ConfigStruct : {tmpConfig, stageConfig},
     SetName      : {<<>>},
     EnvPrefix    : {<<>>, <<"e">>, <<"E","_">>},
     KeyDelim     : {<<>>, <<"-">>}]

\* an environment for the prefixes e, E_ and the empty one
stageEnv ==
    (<<"E","_","X","_","Y">> :> <<"5">>) @@
    (<<"E","_","Z","_","W">> :> <<>>) @@
    (<<"E","_","_","X","_","Y">> :> <<"6">>) @@
    (<<"E","_","N","_","_","K">> :> <<"k">>) @@
    (<<"_","P">> :> <<"9">>) @@
    (<<"P">> :> <<"9">>) @@
    (<<"_","X","_","Y">> :> <<"9">>)

StageEnvirons ==
    Environs \cup {stageEnv}

StageInit ==
    /\ options = <<>>
    /\ setName = <<"g","c","v","2">>
    /\ envPrefix \in {<<"G","C","V","2">>, <<>>}
    /\ keyDelim = <<":",":">>
    /\ kvPrefix = <<>>
    /\ kvBucket = <<>>
    /\ kvStore = "nil"
    /\ environ \in StageEnvirons
    /\ args \in CommandLines
    /\ kv \in InitialStores
    /\ now = 1
    /\ ret = Ret("init", "nil")
    /\ watch = NoWatch
    /\ tree = NoTree
    /\ mu = <<>>
    /\ tasks = NoTasks
    /\ writes = <<>>

\* the statements of Load after which Load has not returned yet
InLoad ==
    {"parseStruct", "loadFromEnv"}

\* Load up to g2.parseStruct(lo.ConfigStruct, "")
LoadParse(lo) ==
    /\ Running
    /\ ret.op \notin InLoad
    /\ now <= MaxClock
    /\ keyDelim' = IF lo.KeyDelim # <<>> THEN lo.KeyDelim ELSE keyDelim
    /\ envPrefix' = IF lo.EnvPrefix # <<>> THEN lo.EnvPrefix ELSE envPrefix
    /\ setName' = IF lo.SetName # <<>> THEN lo.SetName ELSE setName
    /\ options' = parseStruct(<<>>, lo.ConfigStruct, <<>>, keyDelim', now)
    /\ ret' = Ret("parseStruct", "nil")
    /\ UNCHANGED <<kvPrefix, kvBucket, kvStore, environ, args, kv, now, watch, tree, sync>>

\* loadFromEnv()
LoadEnv ==
    /\ Running
    /\ ret.op = "parseStruct"
    /\ options' = loadFromEnv(options, environ, envPrefix, keyDelim, now)
    /\ ret' = Ret("loadFromEnv", "nil")
    /\ UNCHANGED <<setName, envPrefix, keyDelim, kvPrefix, kvBucket, kvStore,
                   environ, args, kv, now, watch, tree, sync>>

\* LoadFlags that goes on to read the backend
LoadFlagsThenKV ==
    /\ Running
    /\ ret.op = "loadFromEnv"
    /\ options' = loadFromKV(loadFromFlags(options, args, now), kv, <<"s">>, setName,
                             <<"b">>, keyDelim, NoFault, now)
    /\ now' = now + 1
    /\ ret' = Ret("Load", "nil")
    /\ UNCHANGED <<setName, envPrefix, keyDelim, kvPrefix, kvBucket, kvStore,
                   environ, args, kv, watch, tree, sync>>

\* g2.loadFromFlags(), and Load returns
LoadFlags ==
    /\ Running
    /\ ret.op = "loadFromEnv"
    /\ options' = loadFromFlags(options, args, now)
    /\ now' = now + 1
    /\ ret' = Ret("Load", "nil")
    /\ UNCHANGED <<setName, envPrefix, keyDelim, kvPrefix, kvBucket, kvStore,
                   environ, args, kv, watch, tree, sync>>

\* the caller calls EnableKVStore between two calls of Load, not inside one
LoadNext ==
    \/ \E lo \in StageInputs : LoadParse(lo)
    \/ LoadEnv
    \/ LoadFlags
    \/ \E opts \in KVInputs : ret.op \notin InLoad /\ EnableKVStore(opts, NoFault)

LoadSpec ==
    StageInit /\ [][LoadNext]_vars

(***************************************************************************)
(* Schema derivation on a struct with every form of tag                    *)
(***************************************************************************)
\* type schemaConfig struct {
\*     Backend string `getconf:"default: etcd, info: b"`
\*     Colon   string `getconf:":default: d, info: c"`
\*     NoName  bool   `getconf:", default: true ,info: n"`
\*     Plain   int
\*     Store   struct { Host string `getconf:"host, default: h.i, info: s"` }
\*     Broker  struct {
\*         Amqp struct {
\*             AmqpUri      string `getconf:"uri, info: u"`
\*             AmqpExchange string `getconf:"exchange, default: a.f"`
\*         }
\*     } `getconf:"brokers"`
\*     Mal     int    `getconf:"mal, bogus: 1, nocolon, default: 5, , info: i"`
\* }
schemaConfig ==
    << [Name |-> <<"B","a","c","k","e","n","d">>, Kind |-> "string", HasTag |-> TRUE,
        Tag |-> <<"d","e","f","a","u","l","t",":"," ","e","t","c","d",","," ","i","n","f","o",":"," ","b">>,
        Fields |-> <<>>],
       [Name |-> <<"C","o","l","o","n">>, Kind |-> "string", HasTag |-> TRUE,
        Tag |-> <<":","d","e","f","a","u","l","t",":"," ","d",","," ","i","n","f","o",":"," ","c">>,
        Fields |-> <<>>],
       [Name |-> <<"N","o","N","a","m","e">>, Kind |-> "bool", HasTag |-> TRUE,
        Tag |-> <<","," ","d","e","f","a","u","l","t",":"," ","t","r","u","e"," ",",","i","n","f","o",":"," ","n">>,
        Fields |-> <<>>],
       [Name |-> <<"P","l","a","i","n">>, Kind |-> "int", HasTag |-> FALSE,
        Tag |-> <<>>,
        Fields |-> <<>>],
       [Name |-> <<"S","t","o","r","e">>, Kind |-> "struct", HasTag |-> FALSE,
        Tag |-> <<>>,
        Fields |-> << [Name |-> <<"H","o","s","t">>, Kind |-> "string", HasTag |-> TRUE,
                      Tag |-> <<"h","o","s","t",","," ","d","e","f","a","u","l","t",":"," ","h",".","i",","," ","i","n","f","o",":"," ","s">>,
                      Fields |-> <<>>] >>],
       [Name |-> <<"B","r","o","k","e","r">>, Kind |-> "struct", HasTag |-> TRUE,
        Tag |-> <<"b","r","o","k","e","r","s">>,
        Fields |-> << [Name |-> <<"A","m","q","p">>, Kind |-> "struct", HasTag |-> FALSE,
                      Tag |-> <<>>,
                      Fields |-> << [Name |-> <<"A","m","q","p","U","r","i">>, Kind |-> "string", HasTag |-> TRUE,
                                    Tag |-> <<"u","r","i",","," ","i","n","f","o",":"," ","u">>,
                                    Fields |-> <<>>],
                            [Name |-> <<"A","m","q","p","E","x","c","h","a","n","g","e">>, Kind |-> "string", HasTag |-> TRUE,
                                    Tag |-> <<"e","x","c","h","a","n","g","e",","," ","d","e","f","a","u","l","t",":"," ","a",".","f">>,
                                    Fields |-> <<>>] >>] >>],
       [Name |-> <<"M","a","l">>, Kind |-> "int", HasTag |-> TRUE,
        Tag |-> <<"m","a","l",","," ","b","o","g","u","s",":"," ","1",","," ","n","o","c","o","l","o","n",","," ","d","e","f","a","u","l","t",":"," ","5",","," ",","," ","i","n","f","o",":"," ","i">>,
        Fields |-> <<>>] >>

SchemaInputs ==
    [ConfigStruct : {schemaConfig, tmpConfig}, SetName : {<<>>}, EnvPrefix : {<<>>},
     KeyDelim : {<<>>, <<".">>}]

nPlain == <<"p","l","a","i","n">>
nStoreHost == <<"s","t","o","r","e",":",":","h","o","s","t">>

\* the names handed to Set
SchemaNames ==
    {nPlain, nStoreHost, nP}

schemaEnv ==
    (<<"G","C","V","2","_","S","T","O","R","E","_","_","H","O","S","T">> :> <<"e">>) @@ (<<"G","C","V","2","_","M","A","L">> :> <<"7">>)

schemaArgs ==
    << [name |-> nPlain, value |-> <<"7">>] >>

SchemaInit ==
    /\ options = <<>>
    /\ setName = <<"g","c","v","2">>
    /\ envPrefix = <<"G","C","V","2">>
    /\ keyDelim = <<":",":">>
    /\ kvPrefix = <<>>
    /\ kvBucket = <<>>
    /\ kvStore = "nil"
    /\ environ \in {<<>>, schemaEnv}
    /\ args \in {<<>>, schemaArgs}
    /\ kv = <<>>
    /\ now = 1
    /\ ret = Ret("init", "nil")
    /\ watch = NoWatch
    /\ tree = NoTree
    /\ mu = <<>>
    /\ tasks = NoTasks
    /\ writes = <<>>

SchemaNext ==
    \/ \E lo \in SchemaInputs : LoadParse(lo)
    \/ LoadEnv
    \/ LoadFlags
    \/ \E key \in SchemaNames, value \in Texts : ret.op \notin InLoad /\ Set(key, value)

SchemaSpec ==
    SchemaInit /\ [][SchemaNext]_vars

(***************************************************************************)
(* Coercion: an option of every kind getTypedValue knows, written by its   *)
(* default and by Set                                                      *)
(***************************************************************************)
\* the kinds of the spec's semantic types; a time.Time option has the kind
\* struct
SemanticKinds ==
    {"int8", "int16", "int32", "int64", "uint8", "uint16", "uint32", "uint64",
     "float32", "float64", "bool", "string", "struct"}

CoerceKinds ==
    SemanticKinds \cup {"int", "uint"}

\* texts handed to Set
CoerceTexts ==
    {<<"7">>, <<"x">>, <<"1",".","5","0">>, <<"t","r","u","e">>, <<"2","0","1","7","-","1","0","-","2","4">>, <<"1","5","0","8","9","2","2","0","4","9">>}

\* texts of a default clause
CoerceDefaults ==
    {<<"7">>,
     <<"+","7">>,
     <<"0","0","7">>,
     <<"-","1">>,
     <<"2","5","6">>,
     <<"6","5","5","3","6">>,
     <<"x">>,
     <<>>,
     <<"1",".","5","0">>,
     <<"-","0",".","2","5">>,
     <<"1","e","3">>,
     <<".","5">>,
     <<"N","a","N">>,
     <<"-","I","n","f">>,
     <<"1","e","4","0","0">>,
     <<"1","e","3","9">>,
     <<"1","e","2","1">>,
     <<"0",".","0","0","0","0","1">>,
     <<"T">>,
     <<"t","r","u","e">>,
     <<"F","A","L","S","E">>,
     <<"y","e","s">>,
     <<"2","0","1","7","-","1","0","-","2","4","T","2","2",":","1","1",":","1","2","+","0","0",":","0","0">>,
     <<"2","0","1","7","-","1","0","-","2","4"," ","2","2",":","4","1",":","4","5">>,
     <<"2","0","1","7","-","1","0","-","2","4">>,
     <<"1","5","0","8","9","2","2","0","4","9">>,
     <<"n","o","t","-","a","-","d","a","t","e">>,
     <<"2","0","1","7","-","0","2","-","3","0">>,
     <<"3",":","0","4","P","M">>,
     <<"2","0","1","7","-","1","0","-","2","4","T","2","2",":","1","1",":","1","2",".","5","0","Z">>,
     <<"2","0","1","7","-","1","0","-","2","4"," ","2","2",":","1","1",":","1","2"," ","-","0","7","0","0">>,
     <<"2","4"," ","O","c","t"," ","2","0","1","7">>,
     <<"T","u","e"," ","O","c","t"," ","2","4"," ","2","2",":","1","1",":","1","2"," ","2","0","1","7">>,
     <<"0","0","0","1","-","0","1","-","0","1">>}

nV ==
    <<"v">>

\* struct { V <kind> `getconf:"v"` }, or with `getconf:"v, default: <def>"`
coerceConfig(kind, hasDefault, def) ==
    << [Name |-> <<"V">>, Kind |-> IF kind = "struct" THEN "time" ELSE kind,
        HasTag |-> TRUE,
        Tag |-> IF hasDefault
                THEN <<"v",","," ","d","e","f","a","u","l","t",":"," ">> \o def
                ELSE <<"v">>,
        Fields |-> <<>>] >>

CoerceInputs ==
    [ConfigStruct : {coerceConfig(k, FALSE, <<>>) : k \in CoerceKinds} \cup
                    {coerceConfig(k, TRUE, d) : k \in CoerceKinds, d \in CoerceDefaults},
     SetName : {<<>>}, EnvPrefix : {<<>>}, KeyDelim : {<<>>}]

CoerceInit ==
    /\ options = <<>>
    /\ setName = <<"g","c","v","2">>
    /\ envPrefix = <<"G","C","V","2">>
    /\ keyDelim = <<":",":">>
    /\ kvPrefix = <<>>
    /\ kvBucket = <<>>
    /\ kvStore = "nil"
    /\ environ = <<>>
    /\ args = <<>>
    /\ kv = <<>>
    /\ now = 1
    /\ ret = Ret("init", "nil")
    /\ watch = NoWatch
    /\ tree = NoTree
    /\ mu = <<>>
    /\ tasks = NoTasks
    /\ writes = <<>>

\* Load is called once, on the empty registry
CoerceNext ==
    \/ \E lo \in CoerceInputs : options = <<>> /\ LoadParse(lo)
    \/ LoadEnv
    \/ LoadFlags
    \/ \E value \in CoerceTexts : ret.op \notin InLoad /\ Set(nV, value)

CoerceSpec ==
    CoerceInit /\ [][CoerceNext]_vars

(***************************************************************************)
(* Properties                                                              *)
(***************************************************************************)
\* the flags FlagSet.Parse accepted: the command line up to its first flag
\* that is not registered
RECURSIVE AcceptedFlags(_)
AcceptedFlags(argv) ==
    IF argv = <<>> \/ Head(argv).name \notin DOMAIN options THEN <<>>
    ELSE <<Head(argv)>> \o AcceptedFlags(Tail(argv))

FlagSupplied(n) ==
    \E i \in 1..Len(AcceptedFlags(args)) : AcceptedFlags(args)[i].name = n

\* the value of the last occurrence of flag n
FlagValue(n) ==
    LET fl == AcceptedFlags(args)
        i  == CHOOSE i \in 1..Len(fl) :
                  fl[i].name = n /\ \A j \in (i + 1)..Len(fl) : fl[j].name # n
    IN  fl[i].value

EnvValue(n) ==
    getEnv(environ, envPrefix, n, keyDelim)

\* the defaults the directives of tmpConfig declare
DeclaredDefaults ==
    (nP :> <<"8">>) @@ (nDH :> <<"x">>)

C9_SetUnregistered ==
    [][\A k \in Names, v \in Texts :
          (k \notin DOMAIN options /\ Set(k, v)) =>
              (ret'.err = "key not found" /\ options' = options)]_vars

\* Set has failed on a loaded registry
C9_Witness ==
    /\ ret = Ret("Set", "key not found")
    /\ DOMAIN options = {nP, nAB, nDH}

\* C10: Set on a registered name returns no error and leaves the option with
\* the coerced text, lastSetBy "user" and a refreshed updatedAt; its name and
\* type, and every other option, are unchanged.
C10_SetRegistered ==
    [][\A k \in Names, v \in Texts :
          (k \in DOMAIN options /\ Set(k, v)) =>
              /\ ret'.err = "nil"
              /\ DOMAIN options' = DOMAIN options
              /\ options'[k] = [options[k] EXCEPT
                                   !.value = getTypedValue(v, options[k].oType),
                                   !.lastSetBy = "user",
                                   !.updatedAt = now]
              /\ options'[k].updatedAt >= options[k].updatedAt
              /\ \A n \in DOMAIN options \ {k} : options'[n] = options[n]]_vars

\* Set has written an int option and a string option
C10_Witness ==
    /\ ret = Ret("Set", "nil")
    /\ nP \in DOMAIN options /\ nAB \in DOMAIN options
    /\ options[nP].lastSetBy = "user" /\ options[nP].value = IntV("int", 7)
    /\ options[nAB].lastSetBy = "user" /\ options[nAB].value = StrV(<<"7">>)

\* the remote path of an option: kvPrefix/setName/kvBucket/name with the key
\* delimiter replaced by "/"
RemotePath(n, prefix, set, bucket, delim) ==
    prefix \o <<"/">> \o set \o <<"/">> \o bucket \o <<"/">> \o Replace(n, delim, <<"/">>)

\* whether the server holds a value at path, and that value
Held(path) ==
    TrimPrefix(path, <<"/">>) \in DOMAIN kv

HeldValue(path) ==
    kv[TrimPrefix(path, <<"/">>)].val

\* C2: after EnableKVStore returns success, every registered option whose
\* remote path holds a value in the backend has that value, coerced, and
\* lastSetBy "kvstore".
C2_ActivationWritesEveryHit ==
    [][\A opts \in KVInputs, fault \in Faults :
          (EnableKVStore(opts, fault) /\ ret'.err = "nil") =>
              \A n \in DOMAIN options :
                  LET path == RemotePath(n, kvPrefix', setName, kvBucket', keyDelim)
                  IN  Held(path) =>
                          /\ options'[n].value = getTypedValue(HeldValue(path), options[n].oType)
                          /\ options'[n].lastSetBy = "kvstore"]_vars

\* C3: EnableKVStore leaves every registered option whose remote path does
\* not exist in the backend as it was.
C3_ActivationMissUntouched ==
    [][\A opts \in KVInputs, fault \in Faults :
          EnableKVStore(opts, fault) =>
              \A n \in DOMAIN options :
                  ~Held(RemotePath(n, kvPrefix', setName, kvBucket', keyDelim)) =>
                      options'[n] = options[n]]_vars

\* C4: in a live WatchWithFunc subscription on option N, every non-nil value
\* the stream hands over sets option N to the coerced value with lastSetBy
\* "kvstore" and then reaches the callback exactly once, in stream order.
C4_WatchWritesThenCalls ==
    [][(WatchConsumerRecv /\ watch.msg # <<>> /\ watch.name \in DOMAIN options) =>
          /\ options'[watch.name].value =
                 getTypedValue(watch.msg, options[watch.name].oType)
          /\ options'[watch.name].lastSetBy = "kvstore"
          /\ watch'.calls = Append(watch.calls, watch.msg)]_vars

\* C5: once the context of WatchWithFunc is cancelled the callback is never
\* invoked again, even with a value in flight, and the receiving goroutine
\* eventually returns.
C5_CancelStopsWatch ==
    /\ [][watch.done => watch'.calls = watch.calls]_vars
    /\ (watch.st = "live" /\ watch.done) ~> (watch.cpc = "exited")

\* C6: in a live WatchTreeWithFunc subscription on kvPrefix/setName/kvBucket
\* a batch of n pairs gives n callbacks in batch order, and every pair whose
\* key is the remote path of a registered option, nested or not, has set that
\* option to its coerced value with lastSetBy "kvstore".
C6_TreeWritesThenCalls ==
    [][(TreeConsumerRecv
            /\ tree.dir = kvPrefix \o <<"/">> \o setName \o <<"/">> \o kvBucket) =>
          /\ tree'.calls = tree.calls \o tree.msg
          /\ \A i \in 1..Len(tree.msg), n \in DOMAIN options :
                 tree.msg[i].Key =
                     TrimPrefix(RemotePath(n, kvPrefix, setName, kvBucket, keyDelim), <<"/">>)
                 => /\ options'[n].value =
                           getTypedValue(tree.msg[i].Value, options[n].oType)
                    /\ options'[n].lastSetBy = "kvstore"]_vars

\* C7: after the context of WatchTreeWithFunc is cancelled the receiving
\* goroutine eventually returns, and it takes no turn on the ended stream.
C7_CancelStopsTree ==
    /\ (tree.st = "live" /\ tree.done) ~> (tree.cpc = "exited")
    /\ [](tree.done => tree.cpc # "turn")

\* C8: when the stream of a live watch ends on a transport error while the
\* context is not cancelled, the receiving goroutine returns.
C8_StreamErrorEndsLoop ==
    /\ (watch.perr /\ ~watch.done) ~> (watch.cpc = "exited")
    /\ (tree.perr /\ ~tree.done) ~> (tree.cpc = "exited")

\* whether flag n stands on the command line, parsed or not
OnCommandLine(n) ==
    \E i \in 1..Len(args) : args[i].name = n

\* C11: the environment stage writes an option if and only if the variable
\* at its key is not empty: a written option gets the coerced value and
\* lastSetBy "env", any other option stays as it was.
C11_EnvStageWrites ==
    [][(LoadEnv /\ envPrefix # <<>>) =>
          \A n \in DOMAIN options :
              LET v == Getenv(environ, envKey(envPrefix, n, keyDelim))
              IN  IF v # <<>>
                  THEN /\ options'[n].value = getTypedValue(v, options[n].oType)
                       /\ options'[n].lastSetBy = "env"
                  ELSE options'[n] = options[n]]_vars

\* the environment stage has written x-y and n::k, and left z.w (empty
\* variable) and, in another run, d::h (empty variable) as they were
C11_Witness ==
    /\ ret.op = "loadFromEnv"
    /\ envPrefix = <<"e">> /\ keyDelim = <<":",":">>
    /\ environ = stageEnv
    /\ nXY \in DOMAIN options /\ nZW \in DOMAIN options
    /\ options[nXY].lastSetBy = "env" /\ options[nXY].value = IntV("int", 5)
    /\ options[nZW].lastSetBy = ""

\* C12: with an empty envPrefix the environment stage writes no option,
\* whatever the environment holds.
C12_EmptyPrefixNoWrite ==
    [][(LoadEnv /\ envPrefix = <<>>) => options' = options]_vars

\* the environment stage has run with an empty prefix in an environment
\* that holds _P, P and _X_Y
C12_Witness ==
    /\ ret.op = "loadFromEnv"
    /\ envPrefix = <<>>
    /\ environ = stageEnv
    /\ nP \in DOMAIN options /\ options[nP].lastSetBy = "default"

\* C13: the flag stage writes, with lastSetBy "flag", only options whose flag
\* is on the command line; every other option keeps what it had after the
\* environment stage.
C13_FlagStageWrites ==
    [][LoadFlags =>
          \A n \in DOMAIN options :
              /\ options'[n] # options[n] =>
                     /\ OnCommandLine(n)
                     /\ options'[n].lastSetBy = "flag"
                     /\ options'[n].value = getTypedValue(FlagValue(n), options[n].oType)
              /\ ~OnCommandLine(n) => options'[n] = options[n]]_vars

\* the flag stage has written p from its flag and left a/b with the value
\* of the environment stage
C13_Witness ==
    /\ ret.op = "Load"
    /\ nP \in DOMAIN options /\ nAB \in DOMAIN options
    /\ options[nP].lastSetBy = "flag" /\ options[nP].value = IntV("int", 7)
    /\ options[nAB].lastSetBy = "env"
    /\ ~OnCommandLine(nAB)

\* option n is written by the step
Written(n) ==
    n \notin DOMAIN options \/ options'[n] # options[n]

EnvName(n, delim) ==
    Replace(Replace(Replace(n, <<"-">>, <<"_">>), delim, <<"_","_">>), <<".">>, <<"_">>)

\* the keys getEnv hands to os.Getenv for option n
KeysLookedUp(n) ==
    IF envPrefix = <<>> THEN {} ELSE {envKey(envPrefix, n, keyDelim)}

\* C15: for every option, prefix and key delimiter the key looked up is
\* UPPER(envPrefix) + "_" + UPPER(name'), name' being the name with "-", the
\* key delimiter and "." substituted.
C15_EnvKeyFormula ==
    [][LoadEnv =>
          \A n \in DOMAIN options :
              KeysLookedUp(n) =
                  {ToUpper(envPrefix) \o <<"_">> \o ToUpper(EnvName(n, keyDelim))}]_vars

\* C15, amended: nothing is looked up for an empty prefix, and "_" is put
\* between prefix and name only when the prefix does not end in "_".
C15_EnvKeyAmended ==
    [][LoadEnv =>
          \A n \in DOMAIN options :
              KeysLookedUp(n) =
                  IF envPrefix = <<>> THEN {}
                  ELSE IF envPrefix[Len(envPrefix)] = "_"
                  THEN {ToUpper(envPrefix) \o ToUpper(EnvName(n, keyDelim))}
                  ELSE {ToUpper(envPrefix) \o <<"_">> \o ToUpper(EnvName(n, keyDelim))}]_vars

\* the environment stage has run for x-y under the prefix E_, which the
\* variable E_X_Y has written and the variable E__X_Y has not
C15_Witness ==
    /\ ret.op = "loadFromEnv"
    /\ envPrefix = <<"E","_">>
    /\ environ = stageEnv
    /\ nXY \in DOMAIN options
    /\ options[nXY].lastSetBy = "env" /\ options[nXY].value = IntV("int", 5)

\* the key activation reads for option n: what loadFromKV hands to getKV
ActivationKey(n) ==
    getKVPrefixKey(kvPrefix \o <<"/">> \o setName \o <<"/">> \o kvBucket,
                   Replace(n, keyDelim, <<"/">>))

\* C16: for every registered option and every kvPrefix, setName and kvBucket
\* (an empty bucket included), the key activation reads and the key
\* WatchWithFunc subscribes to are the same key,
\* kvPrefix/setName/kvBucket/name with the key delimiter replaced by "/".
C16_SameKey ==
    kvStore = "consul" =>
        \A n \in DOMAIN options :
            /\ ActivationKey(n) = getKVKey(n, kvPrefix, setName, kvBucket, keyDelim)
            /\ ActivationKey(n) = RemotePath(n, kvPrefix, setName, kvBucket, keyDelim)

Reported(k) ==
    \E i \in DOMAIN tree.calls : tree.calls[i].Key = k

FailingKVInputs ==
    {opts \in KVInputs : \/ ToLower(opts.Backend) # <<"c","o","n","s","u","l">>
                         \/ ConsulNew(opts.URLs) # "nil"}

C20_UnregisteredWatchFails ==
    [][\A name \in WatchNames, fail \in BOOLEAN :
          (/\ kvStore = "consul"
           /\ options # <<>>
           /\ name \notin DOMAIN options
           /\ WatchWithFunc(name, fail)) =>
              /\ ret'.err # "nil"
              /\ ~fail => ret'.err = "key not found"
              /\ watch' = NoWatch]_vars

\* the zero value of the Go type of an option of the given kind
ZeroValue(kind) ==
    IF kind \in IntKinds \cup UintKinds THEN IntV(kind, 0)
    ELSE IF kind \in FloatKinds THEN FloatV(kind, [n |-> 0, e |-> 0, special |-> <<>>])
    ELSE IF kind = "bool" THEN BoolV(FALSE)
    ELSE IF kind = "string" THEN StrV(<<>>)
    ELSE IF kind = "struct" THEN ZeroTime
    ELSE Nil

\* C21: right after schema derivation, before the environment and flag
\* stages, Get(name) of every registered option is the coerced default text,
\* or the zero value of the option's type when its tag gives no default.
C21_DefaultsAfterDerivation ==
    ret.op = "parseStruct" =>
        \A n \in DOMAIN options :
            Get(options, n) =
                IF options[n].lastSetBy = "default"
                THEN getTypedValue(options[n].defValue, options[n].oType)
                ELSE ZeroValue(options[n].oType)

\* the names the fields of tmpConfig tagged "-" and their children would have
UntrackedNames ==
    {nZZ, nU, nUK}

\* C22: a field whose whole tag is "-" gives no option, nor do the fields of
\* a nested struct so tagged, and no later Set, activation or watch delivery
\* makes such a name appear in GetAll.
C22_UntrackedNeverAppears ==
    \A n \in UntrackedNames :
        /\ n \notin DOMAIN options
        /\ n \notin DOMAIN GetAll(options)

\* after Load and activation, Set was called with an untracked name and the
\* tree watch has delivered the pair of zz to the callback
C22_Witness ==
    /\ DOMAIN options = {nP, nAB, nDH}
    /\ kvStore = "consul"
    /\ ret = Ret("Set", "key not found")
    /\ \E i \in DOMAIN tree.calls : tree.calls[i].Key = kZZ

\* The tag grammar: clauses between commas, trimmed.  A tag that starts with
\* ":" reads as one that starts with ",", that is with no name.
TagClauses(tag) ==
    LET t     == TrimSpace(tag)
        u     == IF t # <<>> /\ Head(t) = ":" THEN <<",">> \o Tail(t) ELSE t
        parts == Split(u, <<",">>)
    IN  [i \in 1..Len(parts) |-> TrimSpace(parts[i])]

\* a clause `key: value`
IsAttribute(c) ==
    Index(c, <<":">>) # 0

ClauseKey(c) ==
    TrimSpace(SubSeq(c, 1, Index(c, <<":">>) - 1))

ClauseValue(c) ==
    TrimSpace(Drop(c, Index(c, <<":">>)))

\* the name override of a field: its first clause when that is a bare name
NameOverride(f) ==
    IF ~f.HasTag THEN <<>>
    ELSE LET c == TagClauses(f.Tag)[1]
         IN  IF IsAttribute(c) THEN <<>> ELSE c

\* the name of a field at its own level
LevelName(f) ==
    IF NameOverride(f) # <<>> THEN NameOverride(f) ELSE f.Name

\* whether the tag has a clause `key: value` for key, and the value of the
\* last such clause
HasAttr(f, key) ==
    /\ f.HasTag
    /\ \E i \in DOMAIN TagClauses(f.Tag) :
           IsAttribute(TagClauses(f.Tag)[i]) /\ ClauseKey(TagClauses(f.Tag)[i]) = key

Attr(f, key) ==
    IF ~HasAttr(f, key) THEN <<>>
    ELSE LET cl == TagClauses(f.Tag)
             is == {i \in DOMAIN cl : IsAttribute(cl[i]) /\ ClauseKey(cl[i]) = key}
             i  == CHOOSE j \in is : \A k \in is : k <= j
         IN  ClauseValue(cl[i])

Untracked(f) ==
    f.HasTag /\ TrimSpace(f.Tag) = <<"-">>

\* the tracked leaf fields of a struct, each with the join of the names of
\* the levels above it
RECURSIVE TrackedLeaves(_, _, _)
TrackedLeaves(fields, path, delim) ==
    IF fields = <<>> THEN {}
    ELSE LET f == Head(fields)
             here == IF Untracked(f) THEN {}
                     ELSE IF f.Kind = "struct"
                     THEN TrackedLeaves(f.Fields, path \o LevelName(f) \o delim, delim)
                     ELSE {[path |-> path, field |-> f]}
         IN  here \cup TrackedLeaves(Tail(fields), path, delim)

\* whether the first clause of the tag of a field is an attribute, not a name
AttributeFirst(f) ==
    /\ f.HasTag
    /\ LET t == TrimSpace(f.Tag)
       IN  t # <<>> /\ (Head(t) = ":" \/ IsAttribute(TagClauses(f.Tag)[1]))

\* C23: every tracked leaf field at any depth is registered under the
\* lower-cased join, with the key delimiter, of the names of the fields
\* around it and its own, each level's name being the name override of its
\* tag when there is one and the field identifier otherwise, and its
\* defValue is the default of its tag.
C23_NestedNames ==
    [][\A lo \in SchemaInputs :
          LoadParse(lo) =>
              \A e \in TrackedLeaves(lo.ConfigStruct, <<>>, keyDelim') :
                  LET name == ToLower(e.path \o LevelName(e.field))
                  IN  /\ name \in DOMAIN options'
                      /\ options'[name].defValue = Attr(e.field, <<"d","e","f","a","u","l","t">>)]_vars

\* C25: a tag whose first clause is not a bare name (it starts with a colon,
\* or its first clause is `key: value`) keeps the lower-cased field
\* identifier as the name and its default and info clauses apply.
C25_AttributeFirstKeepsName ==
    [][\A lo \in SchemaInputs :
          LoadParse(lo) =>
              \A e \in TrackedLeaves(lo.ConfigStruct, <<>>, keyDelim') :
                  AttributeFirst(e.field) =>
                      LET name == ToLower(e.path \o e.field.Name)
                      IN  /\ name \in DOMAIN options'
                          /\ options'[name].defValue =
                                 Attr(e.field, <<"d","e","f","a","u","l","t">>)
                          /\ options'[name].usage = Attr(e.field, <<"i","n","f","o">>)]_vars

\* C26: schema derivation goes on past a malformed clause: a clause with an
\* unknown key, or one without a colon after the first, is skipped, and the
\* field's option is registered with its name and with the default and info
\* of its other clauses.
C26_MalformedClausesSkipped ==
    [][\A lo \in SchemaInputs :
          LoadParse(lo) =>
              \A e \in TrackedLeaves(lo.ConfigStruct, <<>>, keyDelim') :
                  ~AttributeFirst(e.field) =>
                      LET name == ToLower(e.path \o LevelName(e.field))
                          def  == <<"d","e","f","a","u","l","t">>
                      IN  /\ name \in DOMAIN options'
                          /\ options'[name].defValue = Attr(e.field, def)
                          /\ options'[name].usage = Attr(e.field, <<"i","n","f","o">>)
                          /\ HasAttr(e.field, def) =>
                                 /\ options'[name].value =
                                        getTypedValue(Attr(e.field, def), e.field.Kind)
                                 /\ options'[name].lastSetBy = "default"]_vars

\* field Mal, tagged `mal, bogus: 1, nocolon, default: 5, , info: i`, is
\* registered as mal with default 5 and usage i
C26_Witness ==
    /\ ret.op = "parseStruct"
    /\ <<"m","a","l">> \in DOMAIN options
    /\ options[<<"m","a","l">>].defValue = <<"5">>
    /\ options[<<"m","a","l">>].value = IntV("int", 5)
    /\ options[<<"m","a","l">>].usage = <<"i">>

\* the options that were written at least once, by a default or a later stage
EverWritten ==
    {n \in DOMAIN options : options[n].lastSetBy # ""}

GoType(kind) ==
    IF kind = "struct" THEN "time.Time" ELSE kind

\* whether the text is well-formed for the type: the parse of that type
\* succeeds (every text is a string; a timestamp is a layout or epoch
\* seconds)
WellFormed(text, kind) ==
    IF kind \in IntKinds THEN ParseInt(text, IntBits(kind)).ok
    ELSE IF kind \in UintKinds THEN ParseUint(text, UintBits(kind)).ok
    ELSE IF kind \in FloatKinds THEN ParseFloat(text, FloatBits(kind)).ok
    ELSE IF kind = "bool" THEN ParseBool(text).ok
    ELSE IF kind = "struct"
    THEN (\E i \in 1..Len(dateLayouts) : timeParse(dateLayouts[i], text).ok)
         \/ ParseInt(text, 64).ok
    ELSE TRUE

\* C24: for every semantic type and every text, coercion returns a value of
\* exactly that type; a text that is not well-formed for the type gives the
\* zero value of that same type (0 of that width, false, "", the zero
\* timestamp).
C24_CoercionKeepsType ==
    \A n \in DOMAIN options :
        (options[n].oType \in SemanticKinds /\ options[n].lastSetBy = "default") =>
            LET kind == options[n].oType
                v    == Get(options, n)
            IN  /\ v.t = GoType(kind)
                /\ ~WellFormed(options[n].defValue, kind) => v = ZeroValue(kind)

\* the layouts that parse the text
MatchingLayouts(text) ==
    {i \in 1..Len(dateLayouts) : timeParse(dateLayouts[i], text).ok}

\* the day number of October 24 of 2017
Oct24 ==
    daysSinceYearOne(2017, 10, 24)

\* C28: timestamp coercion returns the parse of the first layout of the list
\* that parses the text; when no layout parses it, the text read as Unix
\* epoch seconds; when that fails too, the zero timestamp.  The date strings
\* and the epoch seconds of the spec give a non-zero timestamp, not-a-date
\* gives the zero timestamp.
C28_TimestampCoercion ==
    \A n \in DOMAIN options :
        (options[n].oType = "struct" /\ options[n].lastSetBy = "default") =>
            LET text  == options[n].defValue
                v     == Get(options, n)
                hits  == MatchingLayouts(text)
                first == CHOOSE i \in hits : \A j \in hits : i <= j
                sec   == ParseInt(text, 64)
            IN  /\ v = IF hits # {} THEN timeParse(dateLayouts[first], text).t
                       ELSE IF sec.ok
                       THEN TimeV(unixEpochDay + (sec.n \div 86400), sec.n % 86400, <<>>)
                       ELSE TimeV(0, 0, <<>>)
                /\ text = <<"2","0","1","7","-","1","0","-","2","4","T","2","2",":","1","1",":","1","2","+","0","0",":","0","0">>
                       => v = TimeV(Oct24, 22 * 3600 + 11 * 60 + 12, <<>>)
                /\ text = <<"2","0","1","7","-","1","0","-","2","4"," ","2","2",":","4","1",":","4","5">>
                       => v = TimeV(Oct24, 22 * 3600 + 41 * 60 + 45, <<>>)
                /\ text = <<"2","0","1","7","-","1","0","-","2","4">> => v = TimeV(Oct24, 0, <<>>)
                /\ text = <<"1","5","0","8","9","2","2","0","4","9">>
                       => v = TimeV(Oct24 + 1, 9 * 3600 + 49, <<>>)
                /\ text = <<"n","o","t","-","a","-","d","a","t","e">> => v = ZeroTime

\* the default 1508922049, which no layout parses, was read as epoch seconds
C28_Witness ==
    /\ nV \in DOMAIN options
    /\ options[nV].oType = "struct"
    /\ options[nV].lastSetBy = "default"
    /\ options[nV].defValue = <<"1","5","0","8","9","2","2","0","4","9">>
    /\ MatchingLayouts(<<"1","5","0","8","9","2","2","0","4","9">>) = {}
    /\ Get(options, nV) = TimeV(Oct24 + 1, 9 * 3600 + 49, <<>>)

RoundTripKinds ==
    {"int64", "float64", "bool", "string"}

\* C29: for int64, float64, bool and string and a text that is well-formed
\* for the type, coercing the text, formatting the value with %v and coercing
\* that text again gives the value of the first coercion.
C29_RoundTrip ==
    \A n \in DOMAIN options :
        (/\ options[n].oType \in RoundTripKinds
         /\ options[n].lastSetBy = "default"
         /\ WellFormed(options[n].defValue, options[n].oType)) =>
            /\ Get(options, n) = getTypedValue(options[n].defValue, options[n].oType)
            /\ getTypedValue(OptionString(options[n]), options[n].oType) = Get(options, n)

\* the float64 default 1.50 is held as 1.5, prints as 1.5 and reads back
C29_Witness ==
    /\ nV \in DOMAIN options
    /\ options[nV].oType = "float64"
    /\ options[nV].lastSetBy = "default"
    /\ options[nV].defValue = <<"1",".","5","0">>
    /\ OptionString(options[nV]) = <<"1",".","5">>
    /\ Get(options, nV) = FloatV("float64", [n |-> 15, e |-> -1, special |-> <<>>])

\* C30: once Load has filled the registry, no step (Set on registered and
\* unregistered names, activation with its load from the store, single-key
\* and tree deliveries, also of keys that match no option) adds or removes an
\* entry or changes the name or the semantic type of an option.
C30_RegistryFixedAfterLoad ==
    /\ [](\A n \in DOMAIN options : options[n].name = n)
    /\ [][options # <<>> =>
            /\ DOMAIN options' = DOMAIN options
            /\ \A n \in DOMAIN options :
                  /\ options'[n].name = options[n].name
                  /\ options'[n].oType = options[n].oType]_vars

\* after activation wrote p from the store, a tree delivery of zz, which is
\* no option, and a Set on a registered name: the registry of Load
C30_Witness ==
    /\ DOMAIN options = {nP, nAB, nDH}
    /\ kvStore = "consul"
    /\ ret = Ret("Set", "nil")
    /\ options[nAB].lastSetBy = "user"
    /\ options[nP].lastSetBy = "kvstore"
    /\ options[nP].oType = "int" /\ options[nAB].oType = "string"
    /\ \E i \in DOMAIN tree.calls : tree.calls[i].Key = kZZ

(***************************************************************************)
(* Load called again, with other LoaderOptions, after Set and activation   *)
(***************************************************************************)
ReloadInputs ==
    [ConfigStruct : {tmpConfig, stageConfig},
     SetName      : {<<>>, <<"t">>},
     EnvPrefix    : {<<>>, <<"E","_">>},
     KeyDelim     : {<<>>, <<"-">>}]

ReloadInit ==
    /\ Init
    /\ environ \in {e \in StageEnvirons : e # <<>>}
    /\ args = <<>>
    /\ kv # <<>>

ReloadNext ==
    \/ \E lo \in ReloadInputs : Load(lo)
    \/ \E key \in {nP, nXY} : Set(key, <<"7">>)
    \/ \E opts \in KVInputs \ FailingKVInputs : EnableKVStore(opts, NoFault)

ReloadSpec ==
    ReloadInit /\ [][ReloadNext]_vars

\* C33: for every registered option name the remote key translated back,
\* getGCKey(getKVKey(N)), is N again, so a live single-key watch writes the
\* option it was subscribed with.
C33_KeyRoundTrip ==
    /\ kvStore = "consul" =>
           \A n \in DOMAIN options :
               getGCKey(getKVKey(n, kvPrefix, setName, kvBucket, keyDelim),
                        kvPrefix, setName, kvBucket, keyDelim) = n
    /\ (watch.st = "live" /\ watch.name \in DOMAIN options) => watch.k = watch.name

\* C34: once the context handed to ConsulBackend.Watch or WatchTree is
\* cancelled, the producer goroutine of the backend eventually returns and
\* closes its channel, also when the receiving side no longer receives.
C34_ProducerEnds ==
    /\ (watch.st = "live" /\ watch.done) ~> (watch.ppc = "closed")
    /\ (tree.st = "live" /\ tree.done) ~> (tree.ppc = "closed")

(***************************************************************************)
(* setOption statement by statement: Set from a goroutine of the caller,   *)
(* activation, the goroutine of WatchWithFunc and its callback, and String *)
(* reading the options while they are written                              *)
(***************************************************************************)
\* a mutex that lets every goroutine in
mayLockAlways(locks, name) ==
    TRUE

\* Option.mu.Lock() returns once no goroutine holds the lock of that option
mayLock(locks, name) ==
    name \notin DOMAIN locks

Lock(locks, name, g) ==
    [n \in DOMAIN locks \cup {name} |-> IF n = name THEN g ELSE locks[n]]

\* an Unlock that leaves the lock held
UnlockNever(locks, name) ==
    locks

\* the deferred Option.mu.Unlock()
Unlock(locks, name) ==
    [n \in DOMAIN locks \ {name} |-> locks[n]]

\* setOption is entered: the lookup in gc.options, and where the goroutine
\* goes on when the name is not registered
enterSetOption(op, name, value, setBy, then, todo) ==
    [Idle EXCEPT !.pc = IF name \in DOMAIN options THEN "lock" ELSE then,
                 !.op = op, !.name = name, !.value = value, !.setBy = setBy,
                 !.then = then, !.todo = todo]

\* the option the caller hands to Set: the one activation and the watch
\* write too (activation also writes d::h)
LockNames ==
    {nP}

\* Set(key, value) up to the call of setOption
CallSet(g, key, value) ==
    /\ Running
    /\ tasks[g].pc = "idle"
    /\ now <= MaxClock
    /\ IF key \notin DOMAIN options
       THEN /\ ret' = Ret("Set", "key not found")
            /\ UNCHANGED tasks
       ELSE /\ tasks' = [tasks EXCEPT ![g] =
                            enterSetOption("Set", key, value, "user", "return", {})]
            /\ UNCHANGED ret
    /\ UNCHANGED <<options, setName, envPrefix, keyDelim, kvPrefix, kvBucket, kvStore,
                   environ, args, kv, now, watch, tree, mu, writes>>

\* gc.options[name].mu.Lock()
SetOptionLock(g) ==
    /\ Running
    /\ tasks[g].pc = "lock"
    /\ mayLock(mu, tasks[g].name)
    /\ mu' = Lock(mu, tasks[g].name, g)
    /\ tasks' = [tasks EXCEPT ![g].pc = "value"]
    /\ UNCHANGED <<options, setName, envPrefix, keyDelim, kvPrefix, kvBucket, kvStore,
                   environ, args, kv, now, ret, watch, tree, writes>>

\* gc.options[name].value = getTypedValue(value, gc.options[name].oType)
SetOptionValue(g) ==
    /\ Running
    /\ tasks[g].pc = "value"
    /\ options' = [options EXCEPT ![tasks[g].name].value =
                       getTypedValue(tasks[g].value, options[tasks[g].name].oType)]
    /\ tasks' = [tasks EXCEPT ![g].pc = "updatedAt"]
    /\ UNCHANGED <<setName, envPrefix, keyDelim, kvPrefix, kvBucket, kvStore,
                   environ, args, kv, now, ret, watch, tree, mu, writes>>

\* gc.options[name].updatedAt = time.Now().UTC()
SetOptionUpdatedAt(g) ==
    /\ Running
    /\ tasks[g].pc = "updatedAt"
    /\ options' = [options EXCEPT ![tasks[g].name].updatedAt = now]
    /\ now' = now + 1
    /\ writes' = (now :> [name |-> tasks[g].name,
                          value |-> getTypedValue(tasks[g].value,
                                                  options[tasks[g].name].oType),
                          lastSetBy |-> tasks[g].setBy]) @@ writes
    /\ tasks' = [tasks EXCEPT ![g].pc = "lastSetBy", ![g].t = now]
    /\ UNCHANGED <<setName, envPrefix, keyDelim, kvPrefix, kvBucket, kvStore,
                   environ, args, kv, ret, watch, tree, mu>>

\* gc.options[name].lastSetBy = setBy
SetOptionLastSetBy(g) ==
    /\ Running
    /\ tasks[g].pc = "lastSetBy"
    /\ options' = [options EXCEPT ![tasks[g].name].lastSetBy = tasks[g].setBy]
    /\ tasks' = [tasks EXCEPT ![g].pc = "unlock"]
    /\ UNCHANGED <<setName, envPrefix, keyDelim, kvPrefix, kvBucket, kvStore,
                   environ, args, kv, now, ret, watch, tree, mu, writes>>

\* the deferred Unlock runs and setOption returns to its caller
SetOptionUnlock(g) ==
    /\ Running
    /\ tasks[g].pc = "unlock"
    /\ mu' = Unlock(mu, tasks[g].name)
    /\ tasks' = [tasks EXCEPT ![g].pc = tasks[g].then]
    /\ UNCHANGED <<options, setName, envPrefix, keyDelim, kvPrefix, kvBucket, kvStore,
                   environ, args, kv, now, ret, watch, tree, writes>>

\* Set returns nil
SetReturn(g) ==
    /\ Running
    /\ tasks[g].pc = "return" /\ tasks[g].op = "Set"
    /\ tasks' = [tasks EXCEPT ![g] = Idle]
    /\ ret' = Ret("Set", "nil")
    /\ UNCHANGED <<options, setName, envPrefix, keyDelim, kvPrefix, kvBucket, kvStore,
                   environ, args, kv, now, watch, tree, mu, writes>>

\* EnableKVStore up to the call of loadFromKV
CallEnableKVStore(g, opts) ==
    /\ Running
    /\ tasks[g].pc = "idle"
    /\ IF ToLower(opts.Backend) = <<"c","o","n","s","u","l">>
       THEN /\ kvPrefix' = opts.Prefix
            /\ kvBucket' = opts.Bucket
            /\ IF ConsulNew(opts.URLs) # "nil"
               THEN /\ ret' = Ret("EnableKVStore", "cannot create store consul")
                    /\ UNCHANGED <<kvStore, tasks>>
               ELSE /\ kvStore' = "consul"
                    /\ tasks' = [tasks EXCEPT ![g] =
                                    [Idle EXCEPT !.pc = "range", !.op = "EnableKVStore",
                                                 !.todo = DOMAIN options]]
                    /\ UNCHANGED ret
       ELSE /\ ret' = Ret("EnableKVStore", "unknown backend")
            /\ UNCHANGED <<kvPrefix, kvBucket, kvStore, tasks>>
    /\ UNCHANGED <<options, setName, envPrefix, keyDelim, environ, args, kv, now,
                   watch, tree, mu, writes>>

\* loadFromKV, one round of its loop over g2.options: getKV, and setOption
\* for a value that is not empty
LoadFromKVNext(g) ==
    /\ Running
    /\ tasks[g].pc = "range" /\ tasks[g].op = "EnableKVStore"
    /\ \E n \in tasks[g].todo :
           LET val == getKV(kv, kvPrefix \o <<"/">> \o setName \o <<"/">> \o kvBucket,
                            Replace(n, keyDelim, <<"/">>), FALSE, FALSE)
           IN  tasks' = [tasks EXCEPT ![g] =
                   IF val # <<>>
                   THEN enterSetOption("EnableKVStore", n, val, "kvstore", "range",
                                       tasks[g].todo \ {n})
                   ELSE [tasks[g] EXCEPT !.todo = tasks[g].todo \ {n}]]
    /\ UNCHANGED <<options, setName, envPrefix, keyDelim, kvPrefix, kvBucket, kvStore,
                   environ, args, kv, now, ret, watch, tree, mu, writes>>

\* the loop of loadFromKV is over and EnableKVStore returns nil
EnableKVStoreReturn(g) ==
    /\ Running
    /\ tasks[g].pc = "range" /\ tasks[g].op = "EnableKVStore"
    /\ tasks[g].todo = {}
    /\ tasks' = [tasks EXCEPT ![g] = Idle]
    /\ ret' = Ret("EnableKVStore", "nil")
    /\ UNCHANGED <<options, setName, envPrefix, keyDelim, kvPrefix, kvBucket, kvStore,
                   environ, args, kv, now, watch, tree, mu, writes>>

\* the goroutine of WatchWithFunc, case val := <-evt with the producer
\* sending: a value that is not nil goes to setOption
WatchRecv ==
    /\ Running
    /\ watch.cpc = "select" /\ watch.ppc = "send"
    /\ IF watch.msg # <<>>
       THEN /\ tasks' = [tasks EXCEPT !["watch"] =
                            enterSetOption("watch", watch.k, watch.msg, "kvstore",
                                           "callback", {})]
            /\ watch' = [watch EXCEPT !.ppc = "poll", !.cpc = "busy"]
       ELSE /\ watch' = [watch EXCEPT !.ppc = "poll"]
            /\ UNCHANGED tasks
    /\ UNCHANGED <<options, setName, envPrefix, keyDelim, kvPrefix, kvBucket, kvStore,
                   environ, args, kv, now, ret, tree, mu, writes>>

\* f(val), a callback that calls Set(key, value)
CallbackSet(key, value) ==
    /\ Running
    /\ tasks["watch"].pc = "callback" /\ tasks["watch"].op = "watch"
    /\ watch' = [watch EXCEPT !.calls = Append(@, tasks["watch"].value)]
    /\ tasks' = [tasks EXCEPT !["watch"] =
                    enterSetOption("f", key, value, "user", "return", {})]
    /\ UNCHANGED <<options, setName, envPrefix, keyDelim, kvPrefix, kvBucket, kvStore,
                   environ, args, kv, now, ret, tree, mu, writes>>

\* f(val), a callback that only returns
CallbackOnly ==
    /\ Running
    /\ tasks["watch"].pc = "callback" /\ tasks["watch"].op = "watch"
    /\ watch' = [watch EXCEPT !.calls = Append(@, tasks["watch"].value), !.cpc = "select"]
    /\ tasks' = [tasks EXCEPT !["watch"] = Idle]
    /\ UNCHANGED <<options, setName, envPrefix, keyDelim, kvPrefix, kvBucket, kvStore,
                   environ, args, kv, now, ret, tree, mu, writes>>

\* the Set of the callback has returned, f returns and the loop goes round
CallbackReturn ==
    /\ Running
    /\ tasks["watch"].pc = "return" /\ tasks["watch"].op = "f"
    /\ watch' = [watch EXCEPT !.cpc = "select"]
    /\ tasks' = [tasks EXCEPT !["watch"] = Idle]
    /\ UNCHANGED <<options, setName, envPrefix, keyDelim, kvPrefix, kvBucket, kvStore,
                   environ, args, kv, now, ret, tree, mu, writes>>

\* String() is called: the range over g2.options starts
CallString(g) ==
    /\ Running
    /\ tasks[g].pc = "idle"
    /\ options # <<>>
    /\ tasks' = [tasks EXCEPT ![g] =
                    [Idle EXCEPT !.pc = "range", !.op = "String", !.todo = DOMAIN options]]
    /\ UNCHANGED <<options, setName, envPrefix, keyDelim, kvPrefix, kvBucket, kvStore,
                   environ, args, kv, now, ret, watch, tree, mu, writes>>

\* String, the next option of the range: o.value is read, without the lock
StringReadValue(g) ==
    /\ Running
    /\ tasks[g].pc = "range" /\ tasks[g].op = "String"
    /\ \E n \in tasks[g].todo :
           tasks' = [tasks EXCEPT ![g] =
                        [tasks[g] EXCEPT !.pc = "readLastSetBy", !.name = n,
                                         !.todo = tasks[g].todo \ {n},
                                         !.seen = [value |-> options[n].value]]]
    /\ UNCHANGED <<options, setName, envPrefix, keyDelim, kvPrefix, kvBucket, kvStore,
                   environ, args, kv, now, ret, watch, tree, mu, writes>>

\* String, o.lastSetBy is read
StringReadLastSetBy(g) ==
    /\ Running
    /\ tasks[g].pc = "readLastSetBy"
    /\ tasks' = [tasks EXCEPT ![g] =
                    [tasks[g] EXCEPT !.pc = "readUpdatedAt",
                                     !.seen = [value |-> tasks[g].seen.value,
                                               lastSetBy |-> options[tasks[g].name].lastSetBy]]]
    /\ UNCHANGED <<options, setName, envPrefix, keyDelim, kvPrefix, kvBucket, kvStore,
                   environ, args, kv, now, ret, watch, tree, mu, writes>>

\* String, o.updatedAt is read and the line of the option is formatted
StringReadUpdatedAt(g) ==
    /\ Running
    /\ tasks[g].pc = "readUpdatedAt"
    /\ tasks' = [tasks EXCEPT ![g] =
                    [tasks[g] EXCEPT !.pc = "range",
                                     !.seen = [value |-> tasks[g].seen.value,
                                               lastSetBy |-> tasks[g].seen.lastSetBy,
                                               updatedAt |-> options[tasks[g].name].updatedAt]]]
    /\ UNCHANGED <<options, setName, envPrefix, keyDelim, kvPrefix, kvBucket, kvStore,
                   environ, args, kv, now, ret, watch, tree, mu, writes>>

\* String, the range is over and the text is returned
StringReturn(g) ==
    /\ Running
    /\ tasks[g].pc = "range" /\ tasks[g].op = "String"
    /\ tasks[g].todo = {}
    /\ tasks' = [tasks EXCEPT ![g] = Idle]
    /\ ret' = Ret("String", "nil")
    /\ UNCHANGED <<options, setName, envPrefix, keyDelim, kvPrefix, kvBucket, kvStore,
                   environ, args, kv, now, watch, tree, mu, writes>>

\* the *KVOptions of the caller: the directory that holds a value for p
LockKVInputs ==
    {opts \in KVInputs \ FailingKVInputs : opts.Bucket = <<"b">>}

\* the caller loads, then attaches from its main goroutine and subscribes to
\* p with a callback that only returns, while another of its goroutines
\* calls Set on p and other clients write the key of p
LockNext ==
    \/ \E lo \in LoaderInputs : options = <<>> /\ Load(lo)
    \/ \E key \in LockNames : options # <<>> /\ CallSet("user", key, <<"7">>)
    \/ \E g \in Goroutines : SetOptionLock(g)
    \/ \E g \in Goroutines : SetOptionValue(g)
    \/ \E g \in Goroutines : SetOptionUpdatedAt(g)
    \/ \E g \in Goroutines : SetOptionLastSetBy(g)
    \/ \E g \in Goroutines : SetOptionUnlock(g)
    \/ SetReturn("user")
    \/ \E opts \in LockKVInputs :
           /\ options # <<>> /\ kvStore = "nil" /\ now <= MaxClock
           /\ CallEnableKVStore("main", opts)
    \/ LoadFromKVNext("main")
    \/ EnableKVStoreReturn("main")
    \/ StorePut(kP, <<"5">>)
    \/ kvStore = "consul" /\ WatchWithFunc(nP, FALSE)
    \/ WatchProducerPoll
    \/ WatchProducerGet(FALSE)
    \/ now <= MaxClock /\ WatchRecv
    \/ CallbackOnly

LockInit ==
    /\ WatchInit
    /\ kv # <<>>

LockSpec ==
    LockInit /\ [][LockNext]_vars

\* the keys and the value the callback of the watch hands to Set: the
\* option watched and another one
CallbackNames ==
    {nP, nAB}

\* the caller loads, attaches and subscribes to p with a callback that calls
\* Set or only returns, while another of its goroutines calls Set on p and
\* other clients write the key of p
CallbackNext ==
    \/ \E lo \in LoaderInputs : options = <<>> /\ Load(lo)
    \/ \E opts \in LockKVInputs :
           /\ options # <<>> /\ kvStore = "nil" /\ tasks = NoTasks
           /\ EnableKVStore(opts, NoFault)
    \/ kvStore = "consul" /\ CallSet("user", nP, <<"7">>)
    \/ \E g \in {"user", "watch"} : SetOptionLock(g)
    \/ \E g \in {"user", "watch"} : SetOptionValue(g)
    \/ \E g \in {"user", "watch"} : SetOptionUpdatedAt(g)
    \/ \E g \in {"user", "watch"} : SetOptionLastSetBy(g)
    \/ \E g \in {"user", "watch"} : SetOptionUnlock(g)
    \/ SetReturn("user")
    \/ StorePut(kP, <<"5">>)
    \/ kvStore = "consul" /\ WatchWithFunc(nP, FALSE)
    \/ WatchProducerPoll
    \/ WatchProducerGet(FALSE)
    \/ now <= MaxClock /\ WatchRecv
    \/ \E key \in CallbackNames : CallbackSet(key, <<"9">>)
    \/ CallbackOnly
    \/ CallbackReturn

CallbackSpec ==
    LockInit /\ [][CallbackNext]_vars

\* the Go scheduler runs every goroutine that can take a step, and a
\* sync.Mutex hands the lock to a goroutine that has waited for it (its
\* starvation mode), so a waiter is not passed over for ever
FairCallbackSpec ==
    /\ CallbackSpec
    /\ \A g \in {"user", "watch"} :
           /\ SF_vars(SetOptionLock(g))
           /\ WF_vars(SetOptionValue(g))
           /\ WF_vars(SetOptionUpdatedAt(g))
           /\ WF_vars(SetOptionLastSetBy(g))
           /\ WF_vars(SetOptionUnlock(g))
    /\ WF_vars(SetReturn("user"))
    /\ WF_vars(CallbackReturn)

\* one goroutine of the caller calls Set on p while another calls String
ReadNext ==
    \/ \E lo \in LoaderInputs : options = <<>> /\ Load(lo)
    \/ options # <<>> /\ CallSet("user", nP, <<"7">>)
    \/ SetOptionLock("user")
    \/ SetOptionValue("user")
    \/ SetOptionUpdatedAt("user")
    \/ SetOptionLastSetBy("user")
    \/ SetOptionUnlock("user")
    \/ SetReturn("user")
    \/ CallString("main")
    \/ StringReadValue("main")
    \/ StringReadLastSetBy("main")
    \/ StringReadUpdatedAt("main")
    \/ StringReturn("main")

ReadSpec ==
    LockInit /\ [][ReadNext]_vars

(***************************************************************************)
(* Activation over a store that other clients write, with transport errors *)
(***************************************************************************)
\* ListKV: the list of ConsulBackend.List, or its error, or ErrKeyNotFound
\* for an empty list; the method call on the nil kvStore panics
ListKV(path, fail) ==
    /\ Running
    /\ ret' = Ret("ListKV",
                  IF kvStore = "nil" THEN "panic"
                  ELSE IF fail THEN "transport"
                  ELSE IF ConsulList(kv, TrimPrefix(path, <<"/">>)) = <<>>
                  THEN "key not found"
                  ELSE "nil")
    /\ UNCHANGED <<options, setName, envPrefix, keyDelim, kvPrefix, kvBucket,
                   kvStore, environ, args, kv, now, watch, tree, sync>>

\* the caller loads once, calls EnableKVStore until the store is attached,
\* lists the directory of the options, and subscribes before the store is
\* attached (the subscriptions of an attached store are WatchNext)
ActivationNext ==
    \/ \E lo \in LoaderInputs : options = <<>> /\ Load(lo)
    \/ \E opts \in KVInputs, fault \in Faults : kvStore = "nil" /\ EnableKVStore(opts, fault)
    \/ \E key \in PutKeys, value \in Texts : StorePut(key, value)
    \/ \E dir \in Dirs, fail \in BOOLEAN : ListKV(dir, fail)
    \/ \E name \in WatchNames, fail \in BOOLEAN : kvStore = "nil" /\ WatchWithFunc(name, fail)
    \/ \E dir \in Dirs : kvStore = "nil" /\ WatchTreeWithFunc(dir)

ActivationSpec ==
    WatchInit /\ [][ActivationNext]_vars

\* C35: during activation an option whose Exists or Get call meets a
\* transport error, or whose key holds the empty string, is left as it was,
\* and EnableKVStore returns nil all the same.
C35_ErrorOrEmptyIsMiss ==
    [][\A opts \in KVInputs \ FailingKVInputs, fault \in Faults :
          (/\ ret'.op = "EnableKVStore"
           /\ kvBucket' = opts.Bucket
           /\ EnableKVStore(opts, fault)) =>
              /\ ret' = Ret("EnableKVStore", "nil")
              /\ \A n \in DOMAIN options :
                     LET key == getKVPrefixKey(
                                    kvPrefix' \o <<"/">> \o setName \o <<"/">> \o kvBucket',
                                    Replace(n, keyDelim, <<"/">>))
                     IN  (\/ fault.name = n
                          \/ (Held(key) /\ HeldValue(key) = <<>>)) =>
                             options'[n] = options[n]]_vars

\* activation returned nil over a store that holds the empty string for a/b
\* and 7 for p and d/h: a/b is still unset, d::h was written, and p, whose
\* call met the transport error, has not been written by the backend
C35_Witness ==
    /\ ret = Ret("EnableKVStore", "nil")
    /\ kvStore = "consul" /\ kvBucket = <<"b">>
    /\ kAB \in DOMAIN kv /\ kv[kAB].val = <<>>
    /\ kP \in DOMAIN kv /\ kv[kP].val = <<"7">>
    /\ DOMAIN options = {nP, nAB, nDH}
    /\ options[nAB].value = Nil /\ options[nAB].lastSetBy = ""
    /\ options[nDH].lastSetBy = "kvstore"
    /\ options[nP].lastSetBy # "kvstore"

\* C36: WatchWithFunc, WatchTreeWithFunc and ListKV called before any
\* successful EnableKVStore return an error and set nothing up: no
\* subscription, no goroutine, and never a panic.
C36_UnattachedCallsFail ==
    /\ [](ret.op \in {"WatchWithFunc", "WatchTreeWithFunc", "ListKV"} => ret.err # "panic")
    /\ [][(/\ kvStore = "nil"
           /\ ret' # ret
           /\ ret'.op \in {"WatchWithFunc", "WatchTreeWithFunc", "ListKV"}) =>
              /\ ret'.err # "nil"
              /\ watch' = NoWatch
              /\ tree' = NoTree]_vars

\* the names of the options derived from a field specification
DerivedNames(fields, delim) ==
    {ToLower(e.path \o LevelName(e.field)) : e \in TrackedLeaves(fields, <<>>, delim)}

\* C38: every Load leaves the registry with exactly the options derived from
\* the field specification it is given, none of them holding a value or a
\* time of before the call (user and kvstore writes are gone), while setName,
\* envPrefix and keyDelim given empty stay what the Load before had set, or
\* the built-in gcv2, GCV2 and ::.
C38_LoadReplacesRegistry ==
    /\ [](ret.op = "init" => /\ setName = <<"g","c","v","2">>
                             /\ envPrefix = <<"G","C","V","2">>
                             /\ keyDelim = <<":",":">>)
    /\ [][\A lo \in ReloadInputs :
            (ret'.op = "Load" /\ Load(lo)) =>
                /\ setName' = IF lo.SetName = <<>> THEN setName ELSE lo.SetName
                /\ envPrefix' = IF lo.EnvPrefix = <<>> THEN envPrefix ELSE lo.EnvPrefix
                /\ keyDelim' = IF lo.KeyDelim = <<>> THEN keyDelim ELSE lo.KeyDelim
                /\ DOMAIN options' = DerivedNames(lo.ConfigStruct, keyDelim')
                /\ \A n \in DOMAIN options' :
                       /\ options'[n].lastSetBy \in {"", "default", "env", "flag"}
                       /\ options'[n].updatedAt \in {0, now}
                       /\ options'[n].lastSetBy = "" => options'[n].value = Nil]_vars

\* the third call was a Load of stageConfig with SetName t and KeyDelim - on
\* an attached engine: the options of tmpConfig and what was written to them
\* are gone, the environment prefix is still the built-in one
C38_Witness ==
    /\ ret = Ret("Load", "nil")
    /\ now = 4
    /\ kvStore = "consul"
    /\ setName = <<"t">> /\ keyDelim = <<"-">> /\ envPrefix = <<"G","C","V","2">>
    /\ DOMAIN options = {nXY, nZW, <<"n","-","k">>}
    /\ options[nXY].lastSetBy = "default"

Locked ==
    {"value", "updatedAt", "lastSetBy", "unlock"}

\* value, updatedAt and lastSetBy of option name are those of one write: of
\* one call of setOption, or of Load at time 1, which leaves the three unset
\* or, with a default clause in the tag, sets the three from the clause
FromOneWrite(name) ==
    \/ /\ options[name].updatedAt \in DOMAIN writes
       /\ writes[options[name].updatedAt] =
              [name |-> name, value |-> options[name].value,
               lastSetBy |-> options[name].lastSetBy]
    \/ /\ options[name].value = Nil
       /\ options[name].updatedAt = 0
       /\ options[name].lastSetBy = ""
       /\ options[name].defValue = <<>>
    \/ /\ options[name].value = getTypedValue(options[name].defValue, options[name].oType)
       /\ options[name].updatedAt = 1
       /\ options[name].lastSetBy = "default"

\* C31: writes to one option through setOption (from Set, from activation,
\* from the goroutine of a watch) are serialized by the lock of the option:
\* only the holder of the lock is between Lock and Unlock, at Unlock the
\* option carries exactly what the holder wrote, an option nobody is writing
\* carries value, time and source of one single write, and a goroutine
\* waiting for a lock waits for a writer of that same option only.
C31_WritesSerialized ==
    /\ \A g \in Goroutines :
           tasks[g].pc \in Locked =>
               /\ tasks[g].name \in DOMAIN mu
               /\ mu[tasks[g].name] = g
    /\ \A g \in Goroutines :
           tasks[g].pc = "unlock" =>
               /\ options[tasks[g].name].value =
                      getTypedValue(tasks[g].value, options[tasks[g].name].oType)
               /\ options[tasks[g].name].updatedAt = tasks[g].t
               /\ options[tasks[g].name].lastSetBy = tasks[g].setBy
    /\ \A n \in DOMAIN options : n \notin DOMAIN mu => FromOneWrite(n)
    /\ \A g \in Goroutines :
           (Running /\ tasks[g].pc = "lock" /\ ~ ENABLED SetOptionLock(g)) =>
               \E h \in Goroutines \ {g} :
                   tasks[h].pc \in Locked /\ tasks[h].name = tasks[g].name

\* two goroutines are between Lock and Unlock of two different options while
\* a third waits for one of the two locks, and p has been written before
C31_Witness ==
    /\ tasks["user"].pc = "updatedAt" /\ tasks["user"].name = nP
    /\ tasks["main"].pc = "lastSetBy" /\ tasks["main"].name = nDH
    /\ tasks["watch"].pc = "lock" /\ tasks["watch"].name = nP
    /\ options[nP].lastSetBy = "kvstore"

\* C32: the lock of an option is held only by a goroutine that is between
\* Lock and the deferred Unlock of setOption on that option, so the goroutine
\* of a watch holds no lock when it runs the callback, and a callback that
\* calls Set, on the option watched or on another one, gets through its Set
\* and returns.
C32_CallbackSetCompletes ==
    /\ [](\A n \in DOMAIN mu :
              tasks[mu[n]].pc \in Locked /\ tasks[mu[n]].name = n)
    /\ [](tasks["watch"].pc = "callback" => \A n \in DOMAIN mu : mu[n] # "watch")
    /\ (tasks["watch"].op = "f") ~> (tasks["watch"] = Idle)

\* the callback of the watch of p has called Set on p, after the goroutine
\* of the watch wrote p itself, and its write is the one p carries
C32_Witness ==
    /\ tasks["watch"].op = "f" /\ tasks["watch"].pc = "return"
    /\ tasks["watch"].name = nP /\ watch.name = nP
    /\ options[nP].lastSetBy = "user"
    /\ options[nP].updatedAt = tasks["watch"].t
    /\ \E t \in DOMAIN writes : writes[t].name = nP /\ writes[t].lastSetBy = "kvstore"

\* C37: the value, lastSetBy and updatedAt that String has read for an
\* option, while Set may be writing it, are those of one write: of one call
\* of setOption or of the load.
C37_ReaderSeesOneWrite ==
    \A g \in Goroutines :
        (tasks[g].op = "String" /\ DOMAIN tasks[g].seen = {"value", "lastSetBy", "updatedAt"}) =>
            \/ /\ tasks[g].seen.updatedAt \in DOMAIN writes
               /\ writes[tasks[g].seen.updatedAt] =
                      [name |-> tasks[g].name, value |-> tasks[g].seen.value,
                       lastSetBy |-> tasks[g].seen.lastSetBy]
            \/ /\ tasks[g].seen.value = Nil
               /\ tasks[g].seen.updatedAt = 0
               /\ tasks[g].seen.lastSetBy = ""
               /\ options[tasks[g].name].defValue = <<>>
            \/ /\ tasks[g].seen.value =
                      getTypedValue(options[tasks[g].name].defValue,
                                    options[tasks[g].name].oType)
               /\ tasks[g].seen.updatedAt = 1
               /\ tasks[g].seen.lastSetBy = "default"

====
